---- MODULE Spec2Model ----
(***************************************************************************)
(* Lockspace: a zero-knowledge file vault.                                 *)
(*                                                                         *)
(* The model covers the in-memory access session (sessionReducer), the two *)
(* versions of the storage layer the repository holds (lib/storage.ts and  *)
(* the "FULL VERSION" file), the crypto helpers they call, and the         *)
(* asynchronous handlers of WelcomeScreen, PasswordDialog and              *)
(* WorkspaceView that drive them.                                          *)
(*                                                                         *)
(* A nullable value (T | null) is a sequence: <<>> is null, <<v>> is v.    *)
(* A value a function may throw instead of returning is a record with a    *)
(* field ok.                                                               *)
(***************************************************************************)
EXTENDS Integers, Sequences, FiniteSets, TLC

\* ------------------------------------------------------------------ bounds

\* Folder ids the session and the store range over (crypto.randomUUID values).
MaxFolders == 2
\* File rows a run may insert.
MaxFiles == 2
\* Values the random source hands out in one run (salts, nonces, file keys).
MaxRandom == 12
\* Failed attempts one unlock flow may record before the model stops it.
MaxAttempts == 6
\* Failed attempts one unlock flow may record in a run of the whole application.
MaxAppAttempts == 1
\* LOCK_WORKSPACE dispatches from the Lock button in one run.
MaxLocks == 1
\* Handlers that may be awaiting something at the same time.
MaxInFlight == 1
\* Files one drop on the upload area submits.
MaxBatch == 2

\* ------------------------------------------------------------------ values

Null == <<>>
Some(v) == <<v>>
IsNull(x) == x = <<>>
Val(x) == x[1]

Ok(v) == [ok |-> TRUE, val |-> v]
Throw(e) == [ok |-> FALSE, err |-> e]

Passwords == {"Correct#Horse99battery", "f0lder!Pass1"}
Names == {"Vault", "Photos"}
FolderIds == 1..MaxFolders
FileIds == 1..MaxFiles

Min(a, b) == IF a < b THEN a ELSE b

\* ------------------------------------------------------------------ crypto

\* Random bytes are the next unused value of the random source: r is the
\* number of values drawn so far, the k-th draw after it is r + k.
generateRandomBytes(r, k) == r + k

\* A string of the program is written as its text, with {D800}, {DBFF},
\* {FFFD} and {FEFF} for the code units U+D800 and U+DBFF (surrogates, here
\* without their pair), U+FFFD (the replacement character) and U+FEFF (the
\* byte order mark).
\* TextEncoder.encode gives the UTF-8 bytes of the string, a surrogate
\* without its pair encoded as U+FFFD.
stringToBytes(str) ==
    [utf8 |-> CASE str = "pw{D800}" -> "pw{FFFD}"
                [] str = "pw{DBFF}" -> "pw{FFFD}"
                [] OTHER -> str]

\* TextDecoder.decode gives the string of UTF-8 bytes without the byte order
\* mark they start with, and U+FFFD for bytes that are no UTF-8.
bytesToString(bytes) ==
    IF "utf8" \notin DOMAIN bytes THEN "{FFFD}"
    ELSE CASE bytes.utf8 = "{FEFF}Vault" -> "Vault"
           [] bytes.utf8 = "{FEFF}" -> ""
           [] OTHER -> bytes.utf8

\* String.fromCharCode(...bytes) passes every byte as an argument of one call,
\* and an engine throws RangeError beyond the number of arguments it allows.
\* That number differs between engines; ArgumentLimit is the largest in use.
ArgumentLimit == 500000

fromCharCodeThrows(byteLength) == byteLength > ArgumentLimit

\* Base64 text of a byte value; wellFormed is FALSE for text atob rejects.
bytesToBase64(bytes) == [b64 |-> bytes, wellFormed |-> TRUE]

base64ToBytes(base64) ==
    IF base64.wellFormed THEN Ok(base64.b64) ELSE Throw("InvalidCharacterError")

\* SHA-256 as an ideal (injective) hash.
sha256Hash(data) == [sha256 |-> data]

createWorkspaceId_ofLength(password) ==
    bytesToBase64(sha256Hash(sha256Hash([utf8 |-> IF password = "" THEN "" ELSE "x"])))

createWorkspaceId(password) ==
    bytesToBase64(sha256Hash(sha256Hash(stringToBytes(password))))

deriveKeyFromPassword_noSalt(password, salt) == [pw |-> stringToBytes(password), salt |-> 0]

\* PBKDF2: the key is a function of the password's bytes and the salt,
\* nothing else.
deriveKeyFromPassword(password, salt) == [pw |-> stringToBytes(password), salt |-> salt]

generateFileKey_fixed(rnd) == [random |-> 0]

generateFileKey(rnd) == [random |-> rnd]

\* AES-256-GCM: the ciphertext carries the plaintext under (key, iv) and a
\* tag that no longer verifies once the bytes were changed.
encrypt(plaintext, key, iv) ==
    [iv |-> iv, ciphertext |-> [k |-> key, iv |-> iv, pt |-> plaintext, tag |-> TRUE]]

decrypt(ciphertext, key, iv) ==
    IF ciphertext.tag /\ ciphertext.k = key /\ ciphertext.iv = iv
    THEN Ok(ciphertext.pt)
    ELSE Throw("OperationError")

encryptString_plain(plaintext, key, iv) ==
    [iv |-> bytesToBase64(iv), ciphertext |-> bytesToBase64(plaintext)]

encryptString(plaintext, key, iv) ==
    LET e == encrypt(stringToBytes(plaintext), key, iv)
    IN  [iv |-> bytesToBase64(e.iv), ciphertext |-> bytesToBase64(e.ciphertext)]

decryptString(ciphertext, key, iv) ==
    LET c == base64ToBytes(ciphertext)
        i == base64ToBytes(iv)
        d == decrypt(c.val, key, i.val)
    IN  IF ~c.ok THEN c
        ELSE IF ~i.ok THEN i
        ELSE IF ~d.ok THEN d
        ELSE Ok(bytesToString(d.val))

wrapKey(keyToWrap, wrappingKey, iv) ==
    [iv |-> bytesToBase64(iv),
     wrappedKey |-> bytesToBase64(encrypt(keyToWrap, wrappingKey, iv).ciphertext)]

unwrapKey(wrappedKey, unwrappingKey, iv) ==
    LET w == base64ToBytes(wrappedKey)
        i == base64ToBytes(iv)
    IN  IF ~w.ok THEN w
        ELSE IF ~i.ok THEN i
        ELSE decrypt(w.val, unwrappingKey, i.val)

encryptFile_nonceOfCaller(fileData, folderKey, r) ==
    LET fileKey == generateFileKey(generateRandomBytes(r, 1))
        e == encrypt(fileData, fileKey, generateRandomBytes(r, 2))
        w == wrapKey(fileKey, folderKey, generateRandomBytes(r, 0))
    IN  [iv |-> bytesToBase64(e.iv),
         ciphertext |-> bytesToBase64(e.ciphertext),
         wrappedKey |-> w.wrappedKey,
         keyIv |-> w.iv]

\* encryptFile draws, in this order: the file key, the content nonce, the
\* nonce of the key wrap.
encryptFile(fileData, folderKey, r) ==
    LET fileKey == generateFileKey(generateRandomBytes(r, 1))
        e == encrypt(fileData, fileKey, generateRandomBytes(r, 2))
        w == wrapKey(fileKey, folderKey, generateRandomBytes(r, 3))
    IN  [iv |-> bytesToBase64(e.iv),
         ciphertext |-> bytesToBase64(e.ciphertext),
         wrappedKey |-> w.wrappedKey,
         keyIv |-> w.iv]

decryptFile(ciphertext, iv, wrappedKey, keyIv, folderKey) ==
    LET fileKey == unwrapKey(wrappedKey, folderKey, keyIv)
        c == base64ToBytes(ciphertext)
        i == base64ToBytes(iv)
    IN  IF ~fileKey.ok THEN fileKey
        ELSE IF ~c.ok THEN c
        ELSE IF ~i.ok THEN i
        ELSE decrypt(c.val, fileKey.val, i.val)

\* ------------------------------------------------------------------ row store

\* The three tables: each the set of its rows.
EmptyStore == [workspaces |-> {}, folders |-> {}, files |-> {}]

\* The primary keys a table holds, and the row with a key the table holds.
Keys(table) == {row.id : row \in table}
RowOf(table, id) == CHOOSE row \in table : row.id = id

\* What a supabase call resolves to: {data, error}.
Reply(data, error) == [data |-> data, error |-> error]

\* .select('*').eq('id', id).single(): the row, or an error when the call
\* fails (fail) or when the rows with that key are not exactly one.
selectSingle(table, id, fail) ==
    IF fail THEN Reply(Null, Some("FetchError"))
    ELSE IF Cardinality({row \in table : row.id = id}) = 1
         THEN Reply(Some(RowOf(table, id)), Null)
    ELSE Reply(Null, Some("PGRST116"))

\* .select('*').eq(column, value): the matching rows.
selectWhere(table, column, value, fail) ==
    IF fail THEN Reply(Null, Some("FetchError"))
    ELSE Reply(Some({row \in table : row[column] = value}), Null)

insertWorkspace_noPrimaryKey(db, row, fail) ==
    IF fail THEN [db |-> db, error |-> Some("FetchError")]
    ELSE [db |-> [db EXCEPT !.workspaces = @ \cup {row}], error |-> Null]

\* INSERT into encrypted_workspaces: id is the primary key.
insertWorkspace(db, row, fail) ==
    IF fail THEN [db |-> db, error |-> Some("FetchError")]
    ELSE IF row.id \in Keys(db.workspaces) THEN [db |-> db, error |-> Some("23505")]
    ELSE [db |-> [db EXCEPT !.workspaces = @ \cup {row}], error |-> Null]

\* INSERT into encrypted_folders: primary key id, workspace_id REFERENCES
\* encrypted_workspaces(id).
insertFolder(db, row, fail) ==
    IF fail THEN [db |-> db, error |-> Some("FetchError")]
    ELSE IF row.id \in Keys(db.folders) THEN [db |-> db, error |-> Some("23505")]
    ELSE IF row.workspace_id \notin Keys(db.workspaces)
         THEN [db |-> db, error |-> Some("23503")]
    ELSE [db |-> [db EXCEPT !.folders = @ \cup {row}], error |-> Null]

insertFile_noForeignKey(db, row, fail) ==
    IF fail THEN [db |-> db, error |-> Some("FetchError")]
    ELSE IF row.id \in Keys(db.files) THEN [db |-> db, error |-> Some("23505")]
    ELSE [db |-> [db EXCEPT !.files = @ \cup {row}], error |-> Null]

\* INSERT into encrypted_files: primary key id, folder_id REFERENCES
\* encrypted_folders(id).
insertFile(db, row, fail) ==
    IF fail THEN [db |-> db, error |-> Some("FetchError")]
    ELSE IF row.id \in Keys(db.files) THEN [db |-> db, error |-> Some("23505")]
    ELSE IF row.folder_id \notin Keys(db.folders)
         THEN [db |-> db, error |-> Some("23503")]
    ELSE [db |-> [db EXCEPT !.files = @ \cup {row}], error |-> Null]

\* DELETE FROM encrypted_folders WHERE id = folderId: the files of the folder
\* go with it (ON DELETE CASCADE).  A delete that matches no row is no error.
deleteFolderRow(db, folderId, fail) ==
    IF fail THEN [db |-> db, error |-> Some("FetchError")]
    ELSE [db |-> [db EXCEPT !.folders = {row \in @ : row.id # folderId},
                            !.files = {row \in @ : row.folder_id # folderId}],
          error |-> Null]

\* DELETE FROM encrypted_files WHERE id = fileId.
deleteFileRow(db, fileId, fail) ==
    IF fail THEN [db |-> db, error |-> Some("FetchError")]
    ELSE [db |-> [db EXCEPT !.files = {row \in @ : row.id # fileId}], error |-> Null]

\* DELETE FROM encrypted_workspaces WHERE id = workspaceId, which no policy
\* lets a client do and the owner of the database can: the folders of the
\* workspace go with it, and their files with them.
deleteWorkspaceRow(db, workspaceId) ==
    LET gone == {row.id : row \in {f \in db.folders : f.workspace_id = workspaceId}}
    IN  [workspaces |-> {row \in db.workspaces : row.id # workspaceId},
         folders |-> {row \in db.folders : row.id \notin gone},
         files |-> {row \in db.files : row.folder_id \notin gone}]

\* Date.now(), read as a logical clock: the number of random values drawn
\* when the call is made.
DateNow(r) == r

\* ------------------------------------------------------------------ lib/storage.ts

\* A File of the browser: name, bytes, size and MIME type.
Files ==
    {[name |-> "a.txt", data |-> "0123456789", size |-> 10, type |-> "text/plain"],
     [name |-> "empty", data |-> "", size |-> 0, type |-> ""]}

EncryptedWorkspace(data) ==
    [id |-> data.id, salt |-> data.salt,
     metadata |-> [iv |-> data.metadata_iv, ciphertext |-> data.metadata_ciphertext],
     createdAt |-> data.created_at]

EncryptedFolder(data) ==
    [id |-> data.id, workspaceId |-> data.workspace_id, salt |-> data.salt,
     metadata |-> [iv |-> data.metadata_iv, ciphertext |-> data.metadata_ciphertext],
     createdAt |-> data.created_at]

EncryptedFile(data) ==
    [id |-> data.id, folderId |-> data.folder_id,
     metadata |-> [iv |-> data.metadata_iv, ciphertext |-> data.metadata_ciphertext],
     content |-> [iv |-> data.content_iv, ciphertext |-> data.content_ciphertext,
                  wrappedKey |-> data.content_wrapped_key, keyIv |-> data.content_key_iv],
     size |-> data.size, mimeType |-> data.mime_type, createdAt |-> data.created_at]

\* uploadFile answers besides what it drew before it returned or threw:
\* drawn.uuid ids (crypto.randomUUID) and drawn.random keys and nonces, the
\* nonce of the name, the file key, the content nonce and the nonce of the
\* key wrap.
\* Every function of the storage layer is given the store db, its arguments,
\* the number r of random values drawn so far, the fresh UUID id it would
\* generate, and fail: whether the store call it makes fails.  The ones that
\* write answer [db, ret]; the others answer ret.  ret is Ok(v) for a
\* returned v and Throw(e) for a rejected promise.

createWorkspace(db, password, name, r, fail) ==
    LET id == createWorkspaceId(password)
        salt == generateRandomBytes(r, 1)
        key == deriveKeyFromPassword(password, salt)
        metadata == encryptString(name, key, generateRandomBytes(r, 2))
        workspace == [id |-> id, salt |-> bytesToBase64(salt), metadata |-> metadata,
                      createdAt |-> DateNow(r)]
        ins == insertWorkspace(db, [id |-> workspace.id, salt |-> workspace.salt,
                                    metadata_iv |-> workspace.metadata.iv,
                                    metadata_ciphertext |-> workspace.metadata.ciphertext,
                                    created_at |-> workspace.createdAt],
                               fail)
    IN  IF ~IsNull(ins.error)
        THEN [db |-> ins.db, ret |-> Throw("Failed to create workspace")]
        ELSE [db |-> ins.db, ret |-> Ok([workspace |-> workspace, key |-> key])]

unlockWorkspace(db, password, fail) ==
    LET id == createWorkspaceId(password)
        sel == selectSingle(db.workspaces, id, fail)
        workspace == EncryptedWorkspace(Val(sel.data))
        salt == base64ToBytes(workspace.salt)
        key == deriveKeyFromPassword(password, salt.val)
        name == decryptString(workspace.metadata.ciphertext, key, workspace.metadata.iv)
    IN  IF ~IsNull(sel.error) \/ IsNull(sel.data) THEN Ok(Null)
        ELSE IF ~salt.ok \/ ~name.ok THEN Ok(Null)
        ELSE Ok(Some([workspace |-> workspace, key |-> key, name |-> name.val]))

workspaceExists(db, password, fail) ==
    ~IsNull(selectSingle(db.workspaces, createWorkspaceId(password), fail).data)

createFolder(db, workspaceId, folderPassword, folderName, id, r, fail) ==
    LET salt == generateRandomBytes(r, 1)
        key == deriveKeyFromPassword(folderPassword, salt)
        metadata == encryptString(folderName, key, generateRandomBytes(r, 2))
        folder == [id |-> id, workspaceId |-> workspaceId,
                   salt |-> bytesToBase64(salt), metadata |-> metadata,
                   createdAt |-> DateNow(r)]
        ins == insertFolder(db, [id |-> folder.id, workspace_id |-> folder.workspaceId,
                                 salt |-> folder.salt,
                                 metadata_iv |-> folder.metadata.iv,
                                 metadata_ciphertext |-> folder.metadata.ciphertext,
                                 created_at |-> folder.createdAt],
                            fail)
    IN  IF ~IsNull(ins.error)
        THEN [db |-> ins.db, ret |-> Throw("Failed to create folder")]
        ELSE [db |-> ins.db, ret |-> Ok([folder |-> folder, key |-> key])]

getWorkspaceFolders(db, workspaceId, fail) ==
    LET sel == selectWhere(db.folders, "workspace_id", workspaceId, fail)
    IN  IF ~IsNull(sel.error) \/ IsNull(sel.data) THEN Ok({})
        ELSE Ok({EncryptedFolder(row) : row \in Val(sel.data)})

unlockFolder(db, folderId, password, fail) ==
    LET sel == selectSingle(db.folders, folderId, fail)
        folder == EncryptedFolder(Val(sel.data))
        salt == base64ToBytes(folder.salt)
        key == deriveKeyFromPassword(password, salt.val)
        name == decryptString(folder.metadata.ciphertext, key, folder.metadata.iv)
    IN  IF ~IsNull(sel.error) \/ IsNull(sel.data) THEN Ok(Null)
        ELSE IF ~salt.ok \/ ~name.ok THEN Ok(Null)
        ELSE Ok(Some([folder |-> folder, key |-> key, name |-> name.val]))

uploadFile(db, folderId, folderKey, file, id, r, fail) ==
    LET metadata == encryptString(file.name, folderKey, generateRandomBytes(r, 1))
        content == encryptFile(file.data, folderKey, r + 1)
        encryptedFile ==
            [id |-> id, folderId |-> folderId, metadata |-> metadata, content |-> content,
             size |-> file.size,
             mimeType |-> IF file.type = "" THEN "application/octet-stream" ELSE file.type,
             createdAt |-> DateNow(r)]
        ins == insertFile(db, [id |-> encryptedFile.id,
                               folder_id |-> encryptedFile.folderId,
                               metadata_iv |-> encryptedFile.metadata.iv,
                               metadata_ciphertext |-> encryptedFile.metadata.ciphertext,
                               content_iv |-> encryptedFile.content.iv,
                               content_ciphertext |-> encryptedFile.content.ciphertext,
                               content_wrapped_key |-> encryptedFile.content.wrappedKey,
                               content_key_iv |-> encryptedFile.content.keyIv,
                               size |-> encryptedFile.size,
                               mime_type |-> encryptedFile.mimeType,
                               created_at |-> encryptedFile.createdAt],
                          fail)
    IN  IF fromCharCodeThrows(file.size)
        THEN [db |-> db, ret |-> Throw("RangeError"), drawn |-> [uuid |-> 1, random |-> 4]]
        ELSE IF ~IsNull(ins.error)
        THEN [db |-> ins.db, ret |-> Throw("Failed to upload file"),
              drawn |-> [uuid |-> 1, random |-> 4]]
        ELSE [db |-> ins.db, ret |-> Ok(encryptedFile), drawn |-> [uuid |-> 1, random |-> 4]]

getFolderFiles(db, folderId, fail) ==
    LET sel == selectWhere(db.files, "folder_id", folderId, fail)
    IN  IF ~IsNull(sel.error) \/ IsNull(sel.data) THEN Ok({})
        ELSE Ok({EncryptedFile(row) : row \in Val(sel.data)})

downloadFile(db, fileId, folderKey, fail) ==
    LET sel == selectSingle(db.files, fileId, fail)
        file == EncryptedFile(Val(sel.data))
        filename == decryptString(file.metadata.ciphertext, folderKey, file.metadata.iv)
        fileData == decryptFile(file.content.ciphertext, file.content.iv,
                                file.content.wrappedKey, file.content.keyIv, folderKey)
    IN  IF ~IsNull(sel.error) \/ IsNull(sel.data) THEN Ok(Null)
        ELSE IF ~filename.ok \/ ~fileData.ok THEN Ok(Null)
        ELSE Ok(Some([data |-> fileData.val, filename |-> filename.val,
                      mimeType |-> file.mimeType]))

deleteFolder(db, folderId, fail) ==
    LET del == deleteFolderRow(db, folderId, fail)
    IN  IF ~IsNull(del.error)
        THEN [db |-> del.db, ret |-> Throw("Failed to delete folder")]
        ELSE [db |-> del.db, ret |-> Ok(Null)]

deleteFile(db, fileId, fail) ==
    LET del == deleteFileRow(db, fileId, fail)
    IN  IF ~IsNull(del.error)
        THEN [db |-> del.db, ret |-> Throw("Failed to delete file")]
        ELSE [db |-> del.db, ret |-> Ok(Null)]

\* file is an EncryptedFile, as getFolderFiles answers it.
decryptFileMetadata(file, folderKey) ==
    decryptString(file.metadata.ciphertext, folderKey, file.metadata.iv)

\* ------------------------------------------------------------------ storage layer, "FULL VERSION"

\* The second version of the storage layer the repository holds.  It has the
\* same functions; it neither reads the error of an insert nor catches what
\* the crypto helpers throw.

MAX_FILE_SIZE == 50 * 1024 * 1024

\* A File one byte over the limit.
LargeFile ==
    [name |-> "disk.img", data |-> "50 MiB and one byte", size |-> MAX_FILE_SIZE + 1,
     type |-> ""]

createWorkspaceFull(db, password, name, r, fail) ==
    LET id == createWorkspaceId(password)
        salt == generateRandomBytes(r, 1)
        key == deriveKeyFromPassword(password, salt)
        metadata == encryptString(name, key, generateRandomBytes(r, 2))
        workspace == [id |-> id, salt |-> bytesToBase64(salt), metadata |-> metadata,
                      createdAt |-> DateNow(r)]
        ins == insertWorkspace(db, [id |-> id, salt |-> workspace.salt,
                                    metadata_iv |-> metadata.iv,
                                    metadata_ciphertext |-> metadata.ciphertext,
                                    created_at |-> workspace.createdAt],
                               fail)
    IN  [db |-> ins.db, ret |-> Ok([workspace |-> workspace, key |-> key])]

unlockWorkspaceFull(db, password, fail) ==
    LET id == createWorkspaceId(password)
        sel == selectSingle(db.workspaces, id, fail)
        data == Val(sel.data)
        salt == base64ToBytes(data.salt)
        key == deriveKeyFromPassword(password, salt.val)
        name == decryptString(data.metadata_ciphertext, key, data.metadata_iv)
    IN  IF IsNull(sel.data) THEN Ok(Null)
        ELSE IF ~salt.ok THEN salt
        ELSE IF ~name.ok THEN name
        ELSE Ok(Some([workspace |-> EncryptedWorkspace(data), key |-> key,
                      name |-> name.val]))

workspaceExistsFull(db, password, fail) ==
    ~IsNull(selectSingle(db.workspaces, createWorkspaceId(password), fail).data)

createFolderFull(db, workspaceId, password, name, id, r, fail) ==
    LET salt == generateRandomBytes(r, 1)
        key == deriveKeyFromPassword(password, salt)
        metadata == encryptString(name, key, generateRandomBytes(r, 2))
        ins == insertFolder(db, [id |-> id, workspace_id |-> workspaceId,
                                 salt |-> bytesToBase64(salt),
                                 metadata_iv |-> metadata.iv,
                                 metadata_ciphertext |-> metadata.ciphertext,
                                 created_at |-> DateNow(r)],
                            fail)
    IN  [db |-> ins.db,
         ret |-> Ok([folder |-> [id |-> id, workspaceId |-> workspaceId,
                                 salt |-> bytesToBase64(salt), metadata |-> metadata,
                                 createdAt |-> DateNow(r)],
                     key |-> key])]

getWorkspaceFoldersFull(db, workspaceId, fail) ==
    LET sel == selectWhere(db.folders, "workspace_id", workspaceId, fail)
    IN  IF ~IsNull(sel.error) \/ IsNull(sel.data) THEN Ok({})
        ELSE Ok({EncryptedFolder(row) : row \in Val(sel.data)})

unlockFolderFull(db, folderId, password, fail) ==
    LET sel == selectSingle(db.folders, folderId, fail)
        data == Val(sel.data)
        salt == base64ToBytes(data.salt)
        key == deriveKeyFromPassword(password, salt.val)
        name == decryptString(data.metadata_ciphertext, key, data.metadata_iv)
    IN  IF ~IsNull(sel.error) \/ IsNull(sel.data) THEN Ok(Null)
        ELSE IF ~salt.ok THEN salt
        ELSE IF ~name.ok THEN name
        ELSE Ok(Some([folder |-> EncryptedFolder(data), key |-> key, name |-> name.val]))

uploadFileFull(db, folderId, folderKey, file, id, r, fail) ==
    LET metadata == encryptString(file.name, folderKey, generateRandomBytes(r, 1))
        content == encryptFile(file.data, folderKey, r + 1)
        ins == insertFile(db, [id |-> id,
                               folder_id |-> folderId,
                               metadata_iv |-> metadata.iv,
                               metadata_ciphertext |-> metadata.ciphertext,
                               content_iv |-> content.iv,
                               content_ciphertext |-> content.ciphertext,
                               content_wrapped_key |-> content.wrappedKey,
                               content_key_iv |-> content.keyIv,
                               size |-> file.size,
                               mime_type |-> IF file.type = ""
                                             THEN "application/octet-stream"
                                             ELSE file.type,
                               created_at |-> DateNow(r)],
                          fail)
    IN  IF file.size > MAX_FILE_SIZE
        THEN [db |-> db, ret |-> Throw("File too large"),
              drawn |-> [uuid |-> 0, random |-> 0]]
        ELSE IF fromCharCodeThrows(file.size)
        THEN [db |-> db, ret |-> Throw("RangeError"), drawn |-> [uuid |-> 1, random |-> 4]]
        ELSE [db |-> ins.db,
              ret |-> Ok([id |-> id, folderId |-> folderId, metadata |-> metadata,
                          content |-> content, size |-> file.size,
                          mimeType |-> file.type, createdAt |-> DateNow(r)]),
              drawn |-> [uuid |-> 1, random |-> 4]]

getFolderFilesFull(db, folderId, fail) ==
    LET sel == selectWhere(db.files, "folder_id", folderId, fail)
    IN  IF ~IsNull(sel.error) \/ IsNull(sel.data) THEN Ok({})
        ELSE Ok({EncryptedFile(row) : row \in Val(sel.data)})

downloadFileFull(db, fileId, folderKey, fail) ==
    LET sel == selectSingle(db.files, fileId, fail)
        data == Val(sel.data)
        filename == decryptString(data.metadata_ciphertext, folderKey, data.metadata_iv)
        decryptedData == decryptFile(data.content_ciphertext, data.content_iv,
                                     data.content_wrapped_key, data.content_key_iv,
                                     folderKey)
    IN  IF IsNull(sel.data) THEN Ok(Null)
        ELSE IF ~filename.ok THEN filename
        ELSE IF ~decryptedData.ok THEN decryptedData
        ELSE Ok(Some([data |-> decryptedData.val, filename |-> filename.val,
                      mimeType |-> IF data.mime_type = ""
                                   THEN "application/octet-stream"
                                   ELSE data.mime_type]))

deleteFolderFull(db, folderId, fail) ==
    [db |-> deleteFolderRow(db, folderId, fail).db, ret |-> Ok(Null)]

deleteFileFull(db, fileId, fail) ==
    [db |-> deleteFileRow(db, fileId, fail).db, ret |-> Ok(Null)]

\* file.metadata_ciphertext and file.metadata_iv: the fields of a row.  An
\* EncryptedFile has neither, and atob(undefined) throws.
decryptFileMetadataFull(file, folderKey) ==
    IF {"metadata_ciphertext", "metadata_iv"} \subseteq DOMAIN file
    THEN decryptString(file.metadata_ciphertext, folderKey, file.metadata_iv)
    ELSE Throw("InvalidCharacterError")

\* Which version of the storage layer the components' import of
\* '@/lib/storage' resolves to.
Libs == {"storage.ts", "full"}

Lib_createWorkspace(lib, db, password, name, r, fail) ==
    IF lib = "full" THEN createWorkspaceFull(db, password, name, r, fail)
    ELSE createWorkspace(db, password, name, r, fail)

Lib_unlockWorkspace(lib, db, password, fail) ==
    IF lib = "full" THEN unlockWorkspaceFull(db, password, fail)
    ELSE unlockWorkspace(db, password, fail)

Lib_createFolder(lib, db, workspaceId, password, name, id, r, fail) ==
    IF lib = "full" THEN createFolderFull(db, workspaceId, password, name, id, r, fail)
    ELSE createFolder(db, workspaceId, password, name, id, r, fail)

Lib_getWorkspaceFolders(lib, db, workspaceId, fail) ==
    IF lib = "full" THEN getWorkspaceFoldersFull(db, workspaceId, fail)
    ELSE getWorkspaceFolders(db, workspaceId, fail)

Lib_unlockFolder(lib, db, folderId, password, fail) ==
    IF lib = "full" THEN unlockFolderFull(db, folderId, password, fail)
    ELSE unlockFolder(db, folderId, password, fail)

Lib_uploadFile(lib, db, folderId, folderKey, file, id, r, fail) ==
    IF lib = "full" THEN uploadFileFull(db, folderId, folderKey, file, id, r, fail)
    ELSE uploadFile(db, folderId, folderKey, file, id, r, fail)

Lib_getFolderFiles(lib, db, folderId, fail) ==
    IF lib = "full" THEN getFolderFilesFull(db, folderId, fail)
    ELSE getFolderFiles(db, folderId, fail)

Lib_downloadFile(lib, db, fileId, folderKey, fail) ==
    IF lib = "full" THEN downloadFileFull(db, fileId, folderKey, fail)
    ELSE downloadFile(db, fileId, folderKey, fail)

Lib_deleteFolder(lib, db, folderId, fail) ==
    IF lib = "full" THEN deleteFolderFull(db, folderId, fail)
    ELSE deleteFolder(db, folderId, fail)

Lib_deleteFile(lib, db, fileId, fail) ==
    IF lib = "full" THEN deleteFileFull(db, fileId, fail)
    ELSE deleteFile(db, fileId, fail)

Lib_decryptFileMetadata(lib, file, folderKey) ==
    IF lib = "full" THEN decryptFileMetadataFull(file, folderKey)
    ELSE decryptFileMetadata(file, folderKey)

Lib_workspaceExists(lib, db, password, fail) ==
    IF lib = "full" THEN workspaceExistsFull(db, password, fail)
    ELSE workspaceExists(db, password, fail)

\* ------------------------------------------------------------------ lib/workspace-context.tsx

\* unlockedFolders is a function from the unlocked folder ids to {key, name}.
initialState ==
    [workspace |-> Null, workspaceKey |-> Null, workspaceName |-> Null,
     unlockedFolders |-> <<>>, currentFolderId |-> Null]

MapSet(m, k, v) == (k :> v) @@ m
MapDelete(m, k) == [x \in DOMAIN m \ {k} |-> m[x]]

reduceUNLOCK_WORKSPACE(state, payload) ==
    [state EXCEPT !.workspace = Some(payload.workspace),
                  !.workspaceKey = Some(payload.key),
                  !.workspaceName = Some(payload.name)]

reduceLOCK_WORKSPACE_partial(state) ==
    [initialState EXCEPT !.unlockedFolders = state.unlockedFolders]

reduceLOCK_WORKSPACE(state) == initialState

reduceUNLOCK_FOLDER_alone(state, payload) ==
    [state EXCEPT !.unlockedFolders =
                      MapSet(<<>>, payload.folderId, [key |-> payload.key, name |-> payload.name]),
                  !.currentFolderId = Some(payload.folderId)]

reduceUNLOCK_FOLDER(state, payload) ==
    [state EXCEPT !.unlockedFolders =
                      MapSet(@, payload.folderId, [key |-> payload.key, name |-> payload.name]),
                  !.currentFolderId = Some(payload.folderId)]

reduceLOCK_FOLDER(state, payload) ==
    [state EXCEPT !.unlockedFolders = MapDelete(@, payload.folderId),
                  !.currentFolderId =
                      IF state.currentFolderId = Some(payload.folderId) THEN Null ELSE @]

reduceSET_CURRENT_FOLDER_locking(state, payload) ==
    [state EXCEPT !.currentFolderId = payload,
                  !.unlockedFolders = IF IsNull(payload) THEN <<>> ELSE @]

reduceSET_CURRENT_FOLDER(state, payload) ==
    [state EXCEPT !.currentFolderId = payload]

sessionReducer(state, action) ==
    CASE action.type = "UNLOCK_WORKSPACE" -> reduceUNLOCK_WORKSPACE(state, action.payload)
      [] action.type = "LOCK_WORKSPACE" -> reduceLOCK_WORKSPACE(state)
      [] action.type = "UNLOCK_FOLDER" -> reduceUNLOCK_FOLDER(state, action.payload)
      [] action.type = "LOCK_FOLDER" -> reduceLOCK_FOLDER(state, action.payload)
      [] action.type = "SET_CURRENT_FOLDER" -> reduceSET_CURRENT_FOLDER(state, action.payload)
      [] OTHER -> state

isWorkspaceUnlocked(session) == ~IsNull(session.workspace)

isFolderUnlocked(session, folderId) == folderId \in DOMAIN session.unlockedFolders

getFolderKey(session, folderId) ==
    IF folderId \in DOMAIN session.unlockedFolders
    THEN Some(session.unlockedFolders[folderId].key)
    ELSE Null

getFolderName(session, folderId) ==
    IF folderId \in DOMAIN session.unlockedFolders
    THEN Some(session.unlockedFolders[folderId].name)
    ELSE Null

\* ------------------------------------------------------------------ state

VARIABLES
    session,      \* WorkspaceProvider: the reducer's state
    lastAction,   \* the action dispatched last (history)
    pre,          \* the session before that dispatch (history)
    lib,          \* the version of the storage layer in use
    store,        \* the three tables of the row store
    rng,          \* random values drawn so far
    uuid,         \* folder and file ids generated so far
    welcome,      \* WelcomeScreen: its useState values
    wsTask,       \* WelcomeScreen.handleUnlock in flight
    view,         \* WorkspaceView and its unlock/create PasswordDialog: useState values
    ufTask,       \* PasswordDialog.handleSubmit -> handleUnlockFolder in flight
    cfTask,       \* PasswordDialog.handleSubmit -> handleCreateFolder in flight
    upTask,       \* handleFileUpload in flight
    dlTask,       \* handleFolderDownload in flight
    epoch,        \* LOCK_WORKSPACE dispatches so far (history)
    cryptoLog,    \* the last crypto operation done with a folder key (history)
    call,         \* the storage-layer call made last (history)
    ret,          \* what that call answered (history)
    ledger,       \* what the write calls that returned were given and answered (history)
    crTask,       \* WelcomeScreen.handleCreate in flight
    crTask2,      \* a second run of handleCreate of the same screen in flight
    peer,         \* handleCreate in flight in another tab on the same store
    loads,        \* runs of WorkspaceView's loadFiles effect in flight
    dfTask        \* handleDeleteFolder in flight

sessionVars == <<session, lastAction, pre>>
storeVars == <<store, rng, uuid>>
uiVars == <<welcome, wsTask, view, ufTask, cfTask, upTask, dlTask, epoch, cryptoLog>>
callVars == <<call, ret>>
viewTasks == <<loads, dfTask>>
moreVars == <<ledger, crTask, crTask2, peer, loads, dfTask>>
vars == <<session, lastAction, pre, lib, store, rng, uuid, welcome, wsTask, view,
          ufTask, cfTask, upTask, dlTask, epoch, cryptoLog, call, ret, ledger,
          crTask, crTask2, peer, loads, dfTask>>

Dispatch(action) ==
    /\ session' = sessionReducer(session, action)
    /\ lastAction' = action
    /\ pre' = session

\* ------------------------------------------------------------------ initial values

NoAction == [type |-> "@@INIT", payload |-> Null]
NoCall == [fn |-> "none", lib |-> "none", fail |-> FALSE, cause |-> "none"]

\* refused is the title of the toast with which handleCreate returned before
\* its first await the last time it ran (null when it went on).
WelcomeInit ==
    [mode |-> "welcome", loading |-> FALSE, failedAttempts |-> 0,
     flowFailures |-> 0, refused |-> Null]

\* uFailedAttempts and uLoading are the unlock dialog's failedAttempts and
\* loading, cLoading the create dialog's loading.  flowFailures and failedFor
\* are history: the attempts of the open unlock flow that did not succeed,
\* and the folder whose attempt was counted last.  files holds with each
\* entry the folder it was loaded from or uploaded into (folderId, history);
\* ran is the [selectedFolderId, getFolderKey] the loadFiles effect ran for
\* last (null before its first run); listed is history of the last load that
\* resolved: its folder, its entries, whether the store failed its request,
\* and the ids of the files uploadFile had returned by then.  refused is the
\* title of the toast with which the create dialog's handleSubmit returned
\* before its await the last time it ran (null when it went on).
ViewInit ==
    [folders |-> {}, selectedFolderId |-> Null, folderToUnlock |-> Null,
     unlockFolderOpen |-> FALSE, createFolderOpen |-> FALSE,
     uLoading |-> FALSE, uFailedAttempts |-> 0, cLoading |-> FALSE,
     flowFailures |-> 0, failedFor |-> Null,
     files |-> {}, loadingFiles |-> FALSE, ran |-> Null, listed |-> Null,
     refused |-> Null]

IdleUnlock ==
    [phase |-> "idle", password |-> "", n |-> 0, delay |-> 0, waited |-> 0]
IdleFolderUnlock ==
    [phase |-> "idle", folderToUnlock |-> Null, password |-> "", n |-> 0, delay |-> 0,
     waited |-> 0, mounted |-> FALSE, sameFlow |-> FALSE, failedFor |-> Null]
IdleCreate ==
    [phase |-> "idle", workspaceId |-> Null, password |-> "", confirmPassword |-> "",
     name |-> "", mounted |-> FALSE]
\* handleFileUpload is not running.  submitted, turns, stored and toast are
\* history of its last run: the files it was given, the turns of its loop,
\* the rows the store took from it, and the count of its "Files uploaded"
\* toast (null when it showed none).
IdleUpload ==
    [phase |-> "idle", folderId |-> Null, folderKey |-> Null, obtained |-> 0,
     queue |-> <<>>, uploadedFiles |-> 0, submitted |-> 0, turns |-> 0, stored |-> 0,
     toast |-> Null]
IdleDownload ==
    [phase |-> "idle", folderId |-> Null, folderKey |-> Null, obtained |-> 0,
     queue |-> <<>>]
NoCrypto == [op |-> "none", obtained |-> 0, performed |-> 0]

\* The store a page load finds: one workspace holding one folder, both made
\* by the storage layer in an earlier page session.
SeedWorkspace == createWorkspace(EmptyStore, "Correct#Horse99battery", "Vault", 0, FALSE)
SeedFolder ==
    createFolder(SeedWorkspace.db, SeedWorkspace.ret.val.workspace.id,
                 "f0lder!Pass1", "Photos", 1, 2, FALSE)
SeedStore == SeedFolder.db
\* createWorkspace and createFolder drew two values each.
SeedRandom == 2 + 2
SeedUuid == [folders |-> 1, files |-> 0]

InitSession ==
    /\ session = initialState
    /\ lastAction = NoAction
    /\ pre = initialState

InitUi ==
    /\ welcome = WelcomeInit
    /\ wsTask = IdleUnlock
    /\ view = ViewInit
    /\ ufTask = IdleFolderUnlock
    /\ cfTask = IdleCreate
    /\ upTask = IdleUpload
    /\ dlTask = IdleDownload
    /\ epoch = 0
    /\ cryptoLog = NoCrypto

InitCall ==
    /\ call = NoCall
    /\ ret = Ok(Null)

\* History of the calls made.  workspaces, folders and files are what
\* createWorkspace, createFolder and uploadFile were given and returned each
\* time they returned normally; deleted is the folder ids deleteFolder returned
\* normally for; removed is the ids a removal was asked for, with the rows
\* below them; calls and failures count the write calls and those of them the
\* store failed.
EmptyLedger ==
    [workspaces |-> {}, folders |-> {}, files |-> {}, deleted |-> {}, calls |-> 0, failures |-> 0,
     removed |-> [workspaces |-> {}, folders |-> {}, files |-> {}]]

\* handleCreate is not running.  derived, existed and checkFailed are
\* history: whether the request has called deriveKeyFromPassword, whether a
\* row with the identifier of its password was in the store when it did, and
\* whether the store call of its workspaceExists failed.
IdleCreateWorkspace ==
    [phase |-> "idle", password |-> "", confirmPassword |-> "", workspaceName |-> "",
     derived |-> FALSE, existed |-> FALSE, checkFailed |-> FALSE]

\* handleDeleteFolder is not running.  folderId, selectedFolderId, failed
\* and dispatched are history of its last run: the folder it was asked to
\* delete, the selectedFolderId of the render whose handler ran, whether the
\* store failed its delete, and whether it dispatched LOCK_FOLDER.
IdleDeleteFolder ==
    [phase |-> "idle", folderId |-> Null, selectedFolderId |-> Null,
     failed |-> FALSE, dispatched |-> FALSE]

InitMore ==
    /\ ledger = EmptyLedger
    /\ crTask = IdleCreateWorkspace
    /\ crTask2 = IdleCreateWorkspace
    /\ peer = IdleCreateWorkspace
    /\ loads = <<>>
    /\ dfTask = IdleDeleteFolder

Init ==
    /\ InitSession
    /\ InitUi
    /\ InitCall
    /\ InitMore
    /\ lib \in Libs
    /\ store = SeedStore
    /\ rng = SeedRandom
    /\ uuid = SeedUuid

\* The handlers that are awaiting something.
InFlight ==
    Cardinality({t \in {<<"ws", wsTask.phase>>, <<"uf", ufTask.phase>>,
                        <<"cf", cfTask.phase>>, <<"up", upTask.phase>>,
                        <<"dl", dlTask.phase>>} : t[2] # "idle"})

\* ------------------------------------------------------------------ WelcomeScreen

\* Index renders WelcomeScreen while the workspace is locked, WorkspaceView
\* otherwise; a component that is not rendered holds no state, and is
\* mounted again with its initial state.
WelcomeMounted == ~isWorkspaceUnlocked(session)
ViewMounted == isWorkspaceUnlocked(session)

\* setTimeout(resolve, ms): the promise resolves once ms have passed.
artificialDelay(ms) == ms

unlockDelay_uncapped(failedAttempts) ==
    IF failedAttempts > 0 THEN failedAttempts * 1000 ELSE 0

\* handleUnlock's wait: Math.min(failedAttempts * 1000, 5000) when
\* failedAttempts > 0, none otherwise.
unlockDelay(failedAttempts) ==
    IF failedAttempts > 0 THEN Min(failedAttempts * 1000, 5000) ELSE 0

\* The card "Unlock Existing".
Welcome_setModeUnlock ==
    /\ WelcomeMounted
    /\ welcome.mode = "welcome"
    /\ welcome' = [welcome EXCEPT !.mode = "unlock"]
    /\ UNCHANGED <<sessionVars, lib, storeVars, wsTask, view, ufTask, cfTask, upTask,
                   dlTask, epoch, cryptoLog, callVars, moreVars>>

\* The Back button of the unlock screen (disabled while loading).
Welcome_Back ==
    /\ WelcomeMounted
    /\ welcome.mode = "unlock"
    /\ ~welcome.loading
    /\ welcome' = [welcome EXCEPT !.mode = "welcome", !.failedAttempts = 0,
                                  !.flowFailures = 0]
    /\ UNCHANGED <<sessionVars, lib, storeVars, wsTask, view, ufTask, cfTask, upTask,
                   dlTask, epoch, cryptoLog, callVars, moreVars>>

\* handleUnlock up to its first await.
Welcome_handleUnlock(cap) ==
    \E password \in Passwords :
        /\ WelcomeMounted
        /\ welcome.mode = "unlock"
        /\ ~welcome.loading
        /\ welcome.failedAttempts <= cap
        /\ welcome.flowFailures <= cap
        /\ InFlight < MaxInFlight
        /\ welcome' = [welcome EXCEPT !.loading = TRUE]
        /\ wsTask' = [phase |-> IF welcome.failedAttempts > 0 THEN "delaying" ELSE "calling",
                      password |-> password,
                      n |-> welcome.failedAttempts,
                      delay |-> unlockDelay(welcome.failedAttempts),
                      waited |-> 0]
        /\ UNCHANGED <<sessionVars, lib, storeVars, view, ufTask, cfTask, upTask,
                       dlTask, epoch, cryptoLog, callVars, moreVars>>

\* await artificialDelay(delay) resolves.
Welcome_delayElapsed ==
    /\ wsTask.phase = "delaying"
    /\ wsTask' = [wsTask EXCEPT !.phase = "calling",
                                !.waited = @ + artificialDelay(wsTask.delay)]
    /\ UNCHANGED <<sessionVars, lib, storeVars, welcome, view, ufTask, cfTask, upTask,
                   dlTask, epoch, cryptoLog, callVars, moreVars>>

\* await unlockWorkspace(password) and the rest of handleUnlock.
Welcome_unlockResolve ==
    \E fail \in BOOLEAN :
        LET result == Lib_unlockWorkspace(lib, store, wsTask.password, fail)
        IN  /\ wsTask.phase = "calling"
            /\ wsTask' = IdleUnlock
            /\ IF result.ok /\ ~IsNull(result.val)
               THEN /\ Dispatch([type |-> "UNLOCK_WORKSPACE", payload |-> Val(result.val)])
                    /\ welcome' = WelcomeInit
                    /\ view' = ViewInit
               ELSE /\ UNCHANGED <<sessionVars, view>>
                    /\ welcome' =
                           [welcome EXCEPT
                               !.loading = FALSE,
                               !.failedAttempts = IF result.ok THEN @ + 1 ELSE @,
                               !.flowFailures = @ + 1]
            /\ UNCHANGED <<lib, storeVars, ufTask, cfTask, upTask, dlTask, epoch,
                           cryptoLog, callVars, moreVars>>

\* ------------------------------------------------------------------ WorkspaceView

\* A PasswordDialog is modal: while one is open the page behind it takes no
\* clicks.
NoDialogOpen == ~view.unlockFolderOpen /\ ~view.createFolderOpen

\* loadFolders (the mount effect and the Refresh button): the folder rows of
\* the workspace, as getWorkspaceFolders answers them.
View_loadFolders ==
    \E fail \in BOOLEAN :
        /\ ViewMounted
        /\ NoDialogOpen
        /\ view' = [view EXCEPT !.folders =
               {f.id : f \in Lib_getWorkspaceFolders(lib, store,
                                 Val(session.workspace).id, fail).val}]
        /\ UNCHANGED <<sessionVars, lib, storeVars, welcome, wsTask, ufTask, cfTask,
                       upTask, dlTask, epoch, cryptoLog, callVars, moreVars>>

\* A click on a folder card of the folder view.
View_handleFolderClick ==
    \E folderId \in view.folders :
        /\ ViewMounted
        /\ NoDialogOpen
        /\ IsNull(view.selectedFolderId)
        /\ view' = IF isFolderUnlocked(session, folderId)
                   THEN [view EXCEPT !.selectedFolderId = Some(folderId)]
                   ELSE [view EXCEPT !.folderToUnlock = Some(folderId),
                                     !.unlockFolderOpen = TRUE]
        /\ UNCHANGED <<sessionVars, lib, storeVars, welcome, wsTask, ufTask, cfTask,
                       upTask, dlTask, epoch, cryptoLog, callVars, moreVars>>

\* The arrow of the header: setSelectedFolderId(null).
View_Back ==
    /\ ViewMounted
    /\ NoDialogOpen
    /\ ~IsNull(view.selectedFolderId)
    /\ view' = [view EXCEPT !.selectedFolderId = Null]
    /\ UNCHANGED <<sessionVars, lib, storeVars, welcome, wsTask, ufTask, cfTask,
                   upTask, dlTask, epoch, cryptoLog, callVars, moreVars>>

\* The card "Create Folder": setCreateFolderOpen(true).
View_openCreateFolder ==
    /\ ViewMounted
    /\ NoDialogOpen
    /\ IsNull(view.selectedFolderId)
    /\ view' = [view EXCEPT !.createFolderOpen = TRUE]
    /\ UNCHANGED <<sessionVars, lib, storeVars, welcome, wsTask, ufTask, cfTask,
                   upTask, dlTask, epoch, cryptoLog, callVars, moreVars>>

\* The unlock dialog is dismissed (Escape, the close button, a click outside):
\* onOpenChange(false), and the effect on [open] resets failedAttempts.
View_closeUnlockDialog ==
    /\ ViewMounted
    /\ view.unlockFolderOpen
    /\ view' = [view EXCEPT !.unlockFolderOpen = FALSE, !.uFailedAttempts = 0,
                            !.flowFailures = 0, !.failedFor = Null]
    /\ ufTask' = [ufTask EXCEPT !.sameFlow = FALSE]
    /\ UNCHANGED <<sessionVars, lib, storeVars, welcome, wsTask, cfTask, upTask,
                   dlTask, epoch, cryptoLog, callVars, moreVars>>

View_closeCreateDialog ==
    /\ ViewMounted
    /\ view.createFolderOpen
    /\ view' = [view EXCEPT !.createFolderOpen = FALSE]
    /\ UNCHANGED <<sessionVars, lib, storeVars, welcome, wsTask, ufTask, cfTask,
                   upTask, dlTask, epoch, cryptoLog, callVars, moreVars>>

\* handleLogout, the Lock button.  WorkspaceView is unmounted; what its
\* handlers still await goes on and their dispatches still reach the reducer.
View_handleLogout ==
    /\ ViewMounted
    /\ NoDialogOpen
    /\ epoch < MaxLocks
    /\ Dispatch([type |-> "LOCK_WORKSPACE", payload |-> Null])
    /\ epoch' = epoch + 1
    /\ view' = ViewInit
    /\ welcome' = WelcomeInit
    /\ ufTask' = [ufTask EXCEPT !.mounted = FALSE, !.sameFlow = FALSE]
    /\ cfTask' = [cfTask EXCEPT !.mounted = FALSE]
    /\ UNCHANGED <<lib, storeVars, wsTask, upTask, dlTask, cryptoLog, callVars, moreVars>>

\* ------------------------------------------------------------------ PasswordDialog, mode unlock

dialogDelay(mode, failedAttempts) ==
    IF mode = "unlock" /\ failedAttempts > 0 THEN Min(failedAttempts * 1000, 5000) ELSE 0

\* handleSubmit of the unlock dialog up to its first await.
Dialog_handleSubmitUnlock(cap) ==
    \E password \in Passwords :
        /\ ViewMounted
        /\ view.unlockFolderOpen
        /\ ~view.uLoading
        /\ ufTask.phase = "idle"
        /\ view.uFailedAttempts <= cap
        /\ view.flowFailures <= cap
        /\ InFlight < MaxInFlight
        /\ view' = [view EXCEPT !.uLoading = TRUE]
        /\ ufTask' = [phase |-> IF view.uFailedAttempts > 0 THEN "delaying" ELSE "calling",
                      folderToUnlock |-> view.folderToUnlock,
                      password |-> password,
                      n |-> view.uFailedAttempts,
                      delay |-> dialogDelay("unlock", view.uFailedAttempts),
                      waited |-> 0,
                      mounted |-> TRUE,
                      sameFlow |-> TRUE,
                      failedFor |-> view.failedFor]
        /\ UNCHANGED <<sessionVars, lib, storeVars, welcome, wsTask, cfTask, upTask,
                       dlTask, epoch, cryptoLog, callVars, moreVars>>

Dialog_delayElapsed ==
    /\ ufTask.phase = "delaying"
    /\ ufTask' = [ufTask EXCEPT !.phase = "calling",
                                !.waited = @ + artificialDelay(ufTask.delay)]
    /\ UNCHANGED <<sessionVars, lib, storeVars, welcome, wsTask, view, cfTask, upTask,
                   dlTask, epoch, cryptoLog, callVars, moreVars>>

\* handleUnlockFolder as onSubmit answers it: Ok(TRUE), Ok(FALSE) or a throw,
\* with the result of unlockFolder.
handleUnlockFolder(task, result) ==
    IF IsNull(task.folderToUnlock) THEN Ok(FALSE)
    ELSE IF ~result.ok THEN result
    ELSE IF IsNull(result.val) THEN Ok(FALSE)
    ELSE Ok(TRUE)

\* await onSubmit(password) and the rest of handleSubmit.  The state setters
\* of an unmounted component do nothing.
Dialog_unlockResolve ==
    \E fail \in BOOLEAN :
        LET f == Val(ufTask.folderToUnlock)
            result == Lib_unlockFolder(lib, store, f, ufTask.password, fail)
            success == handleUnlockFolder(ufTask, result)
        IN  /\ ufTask.phase = "calling"
            /\ ufTask' = IdleFolderUnlock
            /\ IF success.ok /\ success.val
               THEN /\ Dispatch([type |-> "UNLOCK_FOLDER",
                                 payload |-> [folderId |-> f,
                                              key |-> Val(result.val).key,
                                              name |-> Val(result.val).name]])
                    /\ view' = IF ~ufTask.mounted THEN view
                               ELSE [view EXCEPT
                                        !.selectedFolderId = Some(f),
                                        !.folderToUnlock = Null,
                                        !.unlockFolderOpen = FALSE,
                                        !.uFailedAttempts =
                                            IF view.unlockFolderOpen THEN 0 ELSE @,
                                        !.flowFailures = 0,
                                        !.failedFor = IF view.unlockFolderOpen THEN Null ELSE @,
                                        !.uLoading = FALSE]
               ELSE /\ UNCHANGED sessionVars
                    /\ view' = IF ~ufTask.mounted THEN view
                               ELSE [view EXCEPT
                                        !.uFailedAttempts = IF success.ok THEN @ + 1 ELSE @,
                                        !.failedFor =
                                            IF success.ok THEN ufTask.folderToUnlock ELSE @,
                                        !.flowFailures =
                                            IF ufTask.sameFlow THEN @ + 1 ELSE @,
                                        !.uLoading = FALSE]
            /\ UNCHANGED <<lib, storeVars, welcome, wsTask, cfTask, upTask, dlTask,
                           epoch, cryptoLog, callVars, moreVars>>

\* ------------------------------------------------------------------ the checks of a create request

\* Passwords that break one rule of validatePasswordStrength each: eleven
\* characters, no uppercase letter, no lowercase letter, no digit, no
\* special character.
WeakPasswords ==
    {"Sh0rt!Pass1", "correct#horse99", "CORRECT#HORSE99", "Correct#Horsebattery",
     "CorrectHorse99battery"}

\* What validatePasswordStrength reads of a password: password.length, and
\* whether /[A-Z]/, /[a-z]/, /[0-9]/ and /[^A-Za-z0-9]/ match it.
PasswordChars(password) ==
    CASE password = "Correct#Horse99battery" ->
             [length |-> 22, upper |-> TRUE, lower |-> TRUE, digit |-> TRUE, special |-> TRUE]
      [] password = "f0lder!Pass1" ->
             [length |-> 12, upper |-> TRUE, lower |-> TRUE, digit |-> TRUE, special |-> TRUE]
      [] password = "Sh0rt!Pass1" ->
             [length |-> 11, upper |-> TRUE, lower |-> TRUE, digit |-> TRUE, special |-> TRUE]
      [] password = "correct#horse99" ->
             [length |-> 15, upper |-> FALSE, lower |-> TRUE, digit |-> TRUE, special |-> TRUE]
      [] password = "CORRECT#HORSE99" ->
             [length |-> 15, upper |-> TRUE, lower |-> FALSE, digit |-> TRUE, special |-> TRUE]
      [] password = "Correct#Horsebattery" ->
             [length |-> 20, upper |-> TRUE, lower |-> TRUE, digit |-> FALSE, special |-> TRUE]
      [] password = "CorrectHorse99battery" ->
             [length |-> 21, upper |-> TRUE, lower |-> TRUE, digit |-> TRUE, special |-> FALSE]

validatePasswordStrength_noLength(password) ==
    LET c == PasswordChars(password)
        errors ==
            (IF ~c.upper THEN <<"Password must contain at least one uppercase letter">>
             ELSE <<>>)
            \o (IF ~c.lower THEN <<"Password must contain at least one lowercase letter">>
                ELSE <<>>)
            \o (IF ~c.digit THEN <<"Password must contain at least one number">>
                ELSE <<>>)
            \o (IF ~c.special
                THEN <<"Password must contain at least one special character">>
                ELSE <<>>)
    IN  [valid |-> Len(errors) = 0, errors |-> errors]

validatePasswordStrength(password) ==
    LET c == PasswordChars(password)
        errors ==
            (IF c.length < 12 THEN <<"Password must be at least 12 characters">>
             ELSE <<>>)
            \o (IF ~c.upper THEN <<"Password must contain at least one uppercase letter">>
                ELSE <<>>)
            \o (IF ~c.lower THEN <<"Password must contain at least one lowercase letter">>
                ELSE <<>>)
            \o (IF ~c.digit THEN <<"Password must contain at least one number">>
                ELSE <<>>)
            \o (IF ~c.special
                THEN <<"Password must contain at least one special character">>
                ELSE <<>>)
    IN  [valid |-> Len(errors) = 0, errors |-> errors]

\* name.trim(): "  " is the one name of the model that holds white space.
trim(name) == IF name = "  " THEN "" ELSE name

\* The three checks handleCreate and the create dialog's handleSubmit make
\* before anything else, in their order: the title of the toast of the first
\* one that fails, null when all pass.
createChecks(name, password, confirmPassword) ==
    IF trim(name) = "" THEN Some("Name required")
    ELSE IF password # confirmPassword THEN Some("Passwords do not match")
    ELSE IF ~validatePasswordStrength(password).valid THEN Some("Password too weak")
    ELSE Null

\* What may be typed into a create form: a name, a password and its
\* confirmation.
CreateForms(names, passwords) ==
    [name : names, password : passwords, confirmPassword : passwords]

\* The forms that pass the checks.
AcceptedForms(names) ==
    {form \in CreateForms(names, Passwords) :
         IsNull(createChecks(form.name, form.password, form.confirmPassword))}

\* The forms typed: any password, confirmed by itself or by another one.
TypedForms ==
    {form \in CreateForms({"Vault", "  "}, Passwords \cup WeakPasswords) :
         form.confirmPassword \in {form.password, "f0lder!Pass1"}}

\* ------------------------------------------------------------------ PasswordDialog, mode create

\* handleSubmit of the create dialog up to its await of handleCreateFolder:
\* its checks, each ending it with a toast, then setLoading(true).
Dialog_handleSubmitCreate(forms) ==
    \E form \in forms :
        LET refused == createChecks(form.name, form.password, form.confirmPassword)
        IN  /\ ViewMounted
            /\ view.createFolderOpen
            /\ ~view.cLoading
            /\ cfTask.phase = "idle"
            /\ uuid.folders < MaxFolders
            /\ InFlight < MaxInFlight
            /\ rng + 2 <= MaxRandom
            /\ view' = IF IsNull(refused)
                       THEN [view EXCEPT !.cLoading = TRUE, !.refused = Null]
                       ELSE [view EXCEPT !.refused = refused]
            /\ cfTask' = IF IsNull(refused)
                         THEN [phase |-> "calling",
                               workspaceId |-> Some(Val(session.workspace).id),
                               password |-> form.password,
                               confirmPassword |-> form.confirmPassword,
                               name |-> trim(form.name),
                               mounted |-> TRUE]
                         ELSE cfTask
            /\ UNCHANGED <<sessionVars, lib, storeVars, welcome, wsTask, ufTask, upTask,
                           dlTask, epoch, cryptoLog, callVars, moreVars>>

\* await createFolder(...), the rest of handleCreateFolder and of handleSubmit.
Dialog_createResolve ==
    \E fail \in BOOLEAN :
        LET id == uuid.folders + 1
            r == Lib_createFolder(lib, store, Val(cfTask.workspaceId), cfTask.password,
                                  cfTask.name, id, rng, fail)
        IN  /\ cfTask.phase = "calling"
            /\ cfTask' = IdleCreate
            /\ store' = r.db
            /\ rng' = rng + 2
            /\ uuid' = [uuid EXCEPT !.folders = id]
            /\ IF r.ret.ok
               THEN /\ Dispatch([type |-> "UNLOCK_FOLDER",
                                 payload |-> [folderId |-> r.ret.val.folder.id,
                                              key |-> r.ret.val.key,
                                              name |-> cfTask.name]])
                    /\ view' = IF ~cfTask.mounted THEN view
                               ELSE [view EXCEPT
                                        !.selectedFolderId = Some(r.ret.val.folder.id),
                                        !.createFolderOpen = FALSE,
                                        !.cLoading = FALSE]
               ELSE /\ UNCHANGED sessionVars
                    /\ view' = IF ~cfTask.mounted THEN view
                               ELSE [view EXCEPT !.cLoading = FALSE]
            /\ UNCHANGED <<lib, welcome, wsTask, ufTask, upTask, dlTask, epoch,
                           cryptoLog, callVars, moreVars>>

\* ------------------------------------------------------------------ handleFileUpload

\* The FileLists a drop may hold: one to MaxBatch files.
Batches == UNION {[1..n -> Files] : n \in 1..MaxBatch}

\* An entry of files, { id, name, size, mimeType, createdAt }, with the
\* folder it belongs to.
FileEntry(id, name, size, mimeType, createdAt, folderId) ==
    [id |-> id, name |-> name, size |-> size, mimeType |-> mimeType,
     createdAt |-> createdAt, folderId |-> folderId]

\* handleFileUpload up to its first await: the folder key is read from the
\* session once, before the loop.
View_handleFileUpload ==
    \E fileList \in Batches :
        /\ ViewMounted
        /\ NoDialogOpen
        /\ ~IsNull(view.selectedFolderId)
        /\ ~IsNull(getFolderKey(session, Val(view.selectedFolderId)))
        /\ upTask.phase = "idle"
        /\ InFlight < MaxInFlight
        /\ uuid.files + Len(fileList) <= MaxFiles
        /\ rng + 4 * Len(fileList) <= MaxRandom
        /\ upTask' = [IdleUpload EXCEPT
                          !.phase = "uploading",
                          !.folderId = view.selectedFolderId,
                          !.folderKey = getFolderKey(session, Val(view.selectedFolderId)),
                          !.obtained = epoch,
                          !.queue = fileList,
                          !.submitted = Len(fileList)]
        /\ UNCHANGED <<sessionVars, lib, storeVars, welcome, wsTask, view, ufTask,
                       cfTask, dlTask, epoch, cryptoLog, callVars, moreVars>>

\* One turn of the loop: await uploadFile(selectedFolderId, folderKey, file),
\* the push onto uploadedFiles or the catch; after the last turn, the toast
\* "Files uploaded" when uploadedFiles is not empty.
View_uploadNext ==
    \E fail \in BOOLEAN :
        LET id == uuid.files + 1
            file == Head(upTask.queue)
            r == Lib_uploadFile(lib, store, Val(upTask.folderId), Val(upTask.folderKey),
                                file, id, rng, fail)
        IN  /\ upTask.phase = "uploading"
            /\ store' = r.db
            /\ rng' = rng + r.drawn.random
            /\ uuid' = [uuid EXCEPT !.files = @ + r.drawn.uuid]
            /\ cryptoLog' = [op |-> "encrypt", obtained |-> upTask.obtained,
                             performed |-> epoch]
            /\ upTask' =
                   LET uploadedFiles == IF r.ret.ok THEN upTask.uploadedFiles + 1
                                        ELSE upTask.uploadedFiles
                       stored == IF r.db # store THEN upTask.stored + 1 ELSE upTask.stored
                   IN  IF Len(upTask.queue) = 1
                       THEN [IdleUpload EXCEPT
                                !.submitted = upTask.submitted,
                                !.turns = upTask.turns + 1,
                                !.stored = stored,
                                !.toast = IF uploadedFiles > 0 THEN Some(uploadedFiles)
                                          ELSE Null]
                       ELSE [upTask EXCEPT
                                !.queue = Tail(@),
                                !.uploadedFiles = uploadedFiles,
                                !.turns = @ + 1,
                                !.stored = stored]
            /\ view' = IF r.ret.ok /\ ViewMounted /\ upTask.obtained = epoch
                       THEN [view EXCEPT !.files = @ \cup
                                {FileEntry(r.ret.val.id, file.name, file.size,
                                           IF file.type = ""
                                           THEN "application/octet-stream"
                                           ELSE file.type,
                                           r.ret.val.createdAt,
                                           Val(upTask.folderId))}]
                       ELSE view
            /\ ledger' = [ledger EXCEPT
                   !.files = IF r.ret.ok
                             THEN @ \cup {[id |-> id, folderId |-> Val(upTask.folderId),
                                           key |-> Val(upTask.folderKey), file |-> file]}
                             ELSE @]
            /\ UNCHANGED <<sessionVars, lib, welcome, wsTask, ufTask, cfTask,
                           dlTask, epoch, callVars, crTask, crTask2, peer, viewTasks>>

\* ------------------------------------------------------------------ handleFolderDownload

\* The orders in which a select may answer the rows with the ids in S.
Orders(S) == {q \in [1..Cardinality(S) -> S] : \A i, j \in DOMAIN q : i # j => q[i] # q[j]}

\* handleFolderDownload up to its first await: key and name are read from
\* the session once.
View_handleFolderDownload ==
    \E folderId \in view.folders :
        /\ ViewMounted
        /\ NoDialogOpen
        /\ IsNull(view.selectedFolderId)
        /\ isFolderUnlocked(session, folderId)
        /\ dlTask.phase = "idle"
        /\ InFlight < MaxInFlight
        /\ dlTask' = [phase |-> "listing",
                      folderId |-> Some(folderId),
                      folderKey |-> getFolderKey(session, folderId),
                      obtained |-> epoch,
                      queue |-> <<>>]
        /\ UNCHANGED <<sessionVars, lib, storeVars, welcome, wsTask, view, ufTask,
                       cfTask, upTask, epoch, cryptoLog, callVars, moreVars>>

\* await getFolderFiles(folderId): an empty list ends the handler.
View_downloadList ==
    /\ dlTask.phase = "listing"
    /\ \E fail \in BOOLEAN :
        LET folderFiles == Lib_getFolderFiles(lib, store, Val(dlTask.folderId), fail).val
        IN  \E q \in Orders({f.id : f \in folderFiles}) :
                /\ dlTask' = IF q = <<>> THEN IdleDownload
                             ELSE [dlTask EXCEPT !.phase = "files", !.queue = q]
                /\ UNCHANGED <<sessionVars, lib, storeVars, welcome, wsTask, view,
                               ufTask, cfTask, upTask, epoch, cryptoLog, callVars, moreVars>>

\* One turn of the loop: await downloadFile(file.id, folderKey).  A throw
\* leaves the loop for the catch.
View_downloadNext ==
    \E fail \in BOOLEAN :
        LET fileId == Head(dlTask.queue)
            found == ~IsNull(selectSingle(store.files, fileId, fail).data)
            result == Lib_downloadFile(lib, store, fileId, Val(dlTask.folderKey), fail)
        IN  /\ dlTask.phase = "files"
            /\ cryptoLog' = IF found
                            THEN [op |-> "decrypt", obtained |-> dlTask.obtained,
                                  performed |-> epoch]
                            ELSE cryptoLog
            /\ dlTask' = IF ~result.ok \/ Len(dlTask.queue) = 1 THEN IdleDownload
                         ELSE [dlTask EXCEPT !.queue = Tail(@)]
            /\ UNCHANGED <<sessionVars, lib, storeVars, welcome, wsTask, view, ufTask,
                           cfTask, upTask, epoch, callVars, moreVars>>

\* ------------------------------------------------------------------ the application

Next ==
    \/ Welcome_setModeUnlock
    \/ Welcome_Back
    \/ Welcome_handleUnlock(MaxAppAttempts)
    \/ Welcome_delayElapsed
    \/ Welcome_unlockResolve
    \/ View_loadFolders
    \/ View_handleFolderClick
    \/ View_Back
    \/ View_openCreateFolder
    \/ View_closeUnlockDialog
    \/ View_closeCreateDialog
    \/ View_handleLogout
    \/ Dialog_handleSubmitUnlock(MaxAppAttempts)
    \/ Dialog_delayElapsed
    \/ Dialog_unlockResolve
    \/ Dialog_handleSubmitCreate(AcceptedForms(Names))
    \/ Dialog_createResolve
    \/ View_handleFileUpload
    \/ View_uploadNext
    \/ View_handleFolderDownload
    \/ View_downloadList
    \/ View_downloadNext

Spec == Init /\ [][Next]_vars

\* ------------------------------------------------------------------ the reducer alone

\* What the reducer is sent when any caller may dispatch any action from any
\* state: an UNLOCK_WORKSPACE payload is what createWorkspace returns for a
\* password and a name, an UNLOCK_FOLDER payload a folder id with a derived
\* key and a name, a LOCK_FOLDER payload a folder id, a SET_CURRENT_FOLDER
\* payload a folder id or null.
WorkspacePayloads ==
    {[workspace |-> createWorkspace(EmptyStore, p, n, 0, FALSE).ret.val.workspace,
      key |-> createWorkspace(EmptyStore, p, n, 0, FALSE).ret.val.key,
      name |-> n] : p \in Passwords, n \in Names}

FolderPayloads ==
    [folderId : FolderIds,
     key : {deriveKeyFromPassword(p, 1) : p \in Passwords},
     name : Names]

InitReducer ==
    /\ InitSession
    /\ InitUi
    /\ InitCall
    /\ InitMore
    /\ lib = "storage.ts"
    /\ store = EmptyStore
    /\ rng = 0
    /\ uuid = [folders |-> 0, files |-> 0]

Dispatch_UNLOCK_WORKSPACE ==
    \E payload \in WorkspacePayloads :
        /\ Dispatch([type |-> "UNLOCK_WORKSPACE", payload |-> payload])
        /\ UNCHANGED <<lib, storeVars, uiVars, callVars, moreVars>>

Dispatch_LOCK_WORKSPACE ==
    /\ Dispatch([type |-> "LOCK_WORKSPACE", payload |-> Null])
    /\ UNCHANGED <<lib, storeVars, uiVars, callVars, moreVars>>

Dispatch_UNLOCK_FOLDER ==
    \E payload \in FolderPayloads :
        /\ Dispatch([type |-> "UNLOCK_FOLDER", payload |-> payload])
        /\ UNCHANGED <<lib, storeVars, uiVars, callVars, moreVars>>

Dispatch_LOCK_FOLDER ==
    \E folderId \in FolderIds :
        /\ Dispatch([type |-> "LOCK_FOLDER", payload |-> [folderId |-> folderId]])
        /\ UNCHANGED <<lib, storeVars, uiVars, callVars, moreVars>>

Dispatch_SET_CURRENT_FOLDER ==
    \E payload \in {Null} \cup {Some(f) : f \in FolderIds} :
        /\ Dispatch([type |-> "SET_CURRENT_FOLDER", payload |-> payload])
        /\ UNCHANGED <<lib, storeVars, uiVars, callVars, moreVars>>

NextReducer ==
    \/ Dispatch_UNLOCK_WORKSPACE
    \/ Dispatch_LOCK_WORKSPACE
    \/ Dispatch_UNLOCK_FOLDER
    \/ Dispatch_LOCK_FOLDER
    \/ Dispatch_SET_CURRENT_FOLDER

SpecReducer == InitReducer /\ [][NextReducer]_vars

\* ------------------------------------------------------------------ claims on the session

\* C1: in every reachable session state currentFolderId is null or the key
\* of an entry of unlockedFolders, whatever sequence of the five reducer
\* actions with whatever payloads led to it.
C1_CurrentFolderIsUnlocked ==
    \/ IsNull(session.currentFolderId)
    \/ Val(session.currentFolderId) \in DOMAIN session.unlockedFolders

\* C2: right after LOCK_WORKSPACE, whatever the state before it, the whole
\* session is wiped: workspace, workspaceKey, workspaceName and
\* currentFolderId are null and unlockedFolders is empty, so no folder is
\* unlocked and no folder key can be read.
C2_LockWorkspaceWipes ==
    lastAction.type = "LOCK_WORKSPACE" =>
        /\ IsNull(session.workspace)
        /\ IsNull(session.workspaceKey)
        /\ IsNull(session.workspaceName)
        /\ IsNull(session.currentFolderId)
        /\ DOMAIN session.unlockedFolders = {}
        /\ ~isWorkspaceUnlocked(session)
        /\ \A f \in FolderIds :
               ~isFolderUnlocked(session, f) /\ IsNull(getFolderKey(session, f))

\* C2, its case: LOCK_WORKSPACE was dispatched on a session with a workspace,
\* every folder unlocked and a current folder.
C2_LockedAFullSession ==
    /\ lastAction.type = "LOCK_WORKSPACE"
    /\ ~IsNull(pre.workspace)
    /\ ~IsNull(pre.workspaceKey)
    /\ DOMAIN pre.unlockedFolders = FolderIds
    /\ ~IsNull(pre.currentFolderId)

\* C3: right after UNLOCK_WORKSPACE(workspace, key, name), whatever the state
\* before it, the session holds that workspace, key and name, unlockedFolders
\* is empty and currentFolderId is null: no folder unlocked before the
\* transition is still unlocked after it.
C3_UnlockWorkspaceClearsFolders ==
    lastAction.type = "UNLOCK_WORKSPACE" =>
        /\ session.workspace = Some(lastAction.payload.workspace)
        /\ session.workspaceKey = Some(lastAction.payload.key)
        /\ session.workspaceName = Some(lastAction.payload.name)
        /\ DOMAIN session.unlockedFolders = {}
        /\ IsNull(session.currentFolderId)

\* C4: a folder is unlocked only while the workspace is unlocked: in every
\* reachable state of the application, under every interleaving of the Lock
\* button with the handleUnlockFolder and handleCreateFolder calls in flight,
\* a non-empty unlockedFolders implies a non-null workspace.
C4_FolderUnlockedOnlyInWorkspace ==
    DOMAIN session.unlockedFolders # {} => ~IsNull(session.workspace)

\* C5: no key outlives the session: every encryption or decryption done with
\* a folder key is done before the next LOCK_WORKSPACE after the key was read
\* from the session, also by a multi-file upload or a folder download that
\* was started before the lock.
C5_NoCryptoWithKeyFromBeforeLock ==
    cryptoLog.op # "none" => cryptoLog.obtained = cryptoLog.performed

\* C7: within one unlock flow failedAttempts equals the number of attempts of
\* that flow that did not succeed: one more per failed attempt, never less
\* while the flow stays open, 0 again only once the flow was abandoned (the
\* dialog closed, Back pressed on the unlock screen).
C7_FailedAttemptsCountTheFlow ==
    /\ (WelcomeMounted /\ welcome.mode = "unlock") =>
           welcome.failedAttempts = welcome.flowFailures
    /\ (ViewMounted /\ view.unlockFolderOpen) =>
           view.uFailedAttempts = view.flowFailures

\* C8: failure counts are not shared across entities: an attempt on a folder
\* is delayed only by failures recorded for that same folder, never by those
\* recorded while unlocking another folder, and an attempt on the workspace
\* only by failures of the workspace flow.
C8_FailuresNotSharedAcrossEntities ==
    /\ (ufTask.phase # "idle" /\ ufTask.n > 0) =>
           ufTask.failedFor = ufTask.folderToUnlock
    /\ (wsTask.phase # "idle") => wsTask.n <= welcome.flowFailures

\* ------------------------------------------------------------------ the two unlock flows

\* The unlock screen and the unlock dialog alone, each flow followed up to
\* MaxAttempts recorded failures.
NextThrottle ==
    \/ Welcome_setModeUnlock
    \/ Welcome_Back
    \/ Welcome_handleUnlock(MaxAttempts)
    \/ Welcome_delayElapsed
    \/ Welcome_unlockResolve
    \/ View_loadFolders
    \/ View_handleFolderClick
    \/ View_Back
    \/ View_closeUnlockDialog
    \/ View_handleLogout
    \/ Dialog_handleSubmitUnlock(MaxAttempts)
    \/ Dialog_delayElapsed
    \/ Dialog_unlockResolve

SpecThrottle == Init /\ [][NextThrottle]_vars

\* C6: in both unlock flows an attempt made with n failed attempts recorded
\* has waited exactly min(n * 1000, 5000) ms when the store lookup and the
\* key derivation start if n > 0, and has not waited at all if n = 0; the
\* wait never exceeds 5000 ms and does not shrink as n grows.
C6_ThrottleDelay ==
    /\ \A t \in {wsTask, ufTask} :
           /\ t.phase = "calling" =>
                  t.waited = (IF t.n = 0 THEN 0
                              ELSE IF t.n * 1000 < 5000 THEN t.n * 1000 ELSE 5000)
           /\ t.phase = "delaying" => t.n > 0 /\ t.waited = 0
           /\ t.waited <= 5000
    /\ \A n \in 0..MaxAttempts :
           /\ unlockDelay(n) <= unlockDelay(n + 1)
           /\ dialogDelay("unlock", n) <= dialogDelay("unlock", n + 1)

\* C6, its case: an attempt on the unlock screen with more than five failures
\* recorded has reached the call of unlockWorkspace.
C6_SixthRetryCalls ==
    /\ wsTask.phase = "calling"
    /\ wsTask.n > 5
    /\ wsTask.waited > 0

\* ------------------------------------------------------------------ the storage layer alone

\* A store that holds one workspace, one folder and one file, all written by
\* the storage layer, which an untrusted host may then alter.
StorageSeedFile ==
    uploadFile(SeedStore, 1, SeedFolder.ret.val.key,
               [name |-> "a.txt", data |-> "0123456789", size |-> 10,
                type |-> "text/plain"],
               1, SeedRandom, FALSE)
StorageSeed == StorageSeedFile.db

\* The columns of each table that hold base64 text.
TextColumns ==
    [workspaces |-> {"salt", "metadata_iv", "metadata_ciphertext"},
     folders |-> {"salt", "metadata_iv", "metadata_ciphertext"},
     files |-> {"metadata_iv", "metadata_ciphertext", "content_iv",
                "content_ciphertext", "content_wrapped_key", "content_key_iv"}]

\* The columns of db that no longer hold what the storage layer wrote.
Altered(db) ==
    {x \in UNION {{<<t, i, c>> : i \in Keys(db[t]), c \in TextColumns[t]} :
                     t \in DOMAIN TextColumns} :
        RowOf(db[x[1]], x[2])[x[3]] # RowOf(StorageSeed[x[1]], x[2])[x[3]]}

\* How many columns the host alters in one run.
MaxAltered == 1

\* Base64 text after the host changed it: text atob rejects, or text that
\* decodes to other bytes (a salt or nonce no call drew, a ciphertext whose
\* tag no longer verifies).
CiphertextColumns == {"metadata_ciphertext", "content_ciphertext", "content_wrapped_key"}

alter(column, text, how) ==
    IF how = "malformed" THEN [text EXCEPT !.wellFormed = FALSE]
    ELSE IF column \in CiphertextColumns THEN [text EXCEPT !.b64.tag = FALSE]
    ELSE [text EXCEPT !.b64 = 0]

InitStorage ==
    /\ InitSession
    /\ InitUi
    /\ InitCall
    /\ InitMore
    /\ lib \in Libs
    /\ store = StorageSeed
    /\ rng = SeedRandom + 4
    /\ uuid = [folders |-> 1, files |-> 1]

\* The host rewrites one column of one row.
Store_alter ==
    \E t \in DOMAIN TextColumns :
        \E row \in store[t], how \in {"malformed", "bytes"} :
            \E c \in TextColumns[t] :
                /\ Cardinality(Altered(store)) < MaxAltered
                /\ store' = [store EXCEPT ![t] =
                       (@ \ {row}) \cup {[row EXCEPT ![c] = alter(c, @, how)]}]
                /\ UNCHANGED <<sessionVars, lib, rng, uuid, uiVars, callVars, moreVars>>

\* Why a lookup of row id of a table with the key a caller holds cannot
\* succeed, if it cannot: the store call fails, no row has the id, the row
\* was altered, or the key is not the one the row was encrypted under.
Cause(table, id, key, fail) ==
    IF fail THEN "store"
    ELSE IF id \notin Keys(store[table]) THEN "absent"
    ELSE IF RowOf(store[table], id) # RowOf(StorageSeed[table], id) THEN "corrupted"
    ELSE IF RowOf(store[table], id).metadata_ciphertext.b64.k # key THEN "wrong password"
    ELSE "none"

CallOf(fn, cause, fail) == [fn |-> fn, lib |-> lib, fail |-> fail, cause |-> cause]

Call_unlockWorkspace ==
    \E password \in Passwords, fail \in BOOLEAN :
        LET id == createWorkspaceId(password)
            key == IF id \in Keys(store.workspaces)
                   THEN RowOf(StorageSeed.workspaces, id).metadata_ciphertext.b64.k
                   ELSE Null
        IN  /\ call' = CallOf("unlockWorkspace", Cause("workspaces", id, key, fail), fail)
            /\ ret' = Lib_unlockWorkspace(lib, store, password, fail)
            /\ UNCHANGED <<sessionVars, lib, storeVars, uiVars, moreVars>>

Call_unlockFolder ==
    \E folderId \in FolderIds, password \in Passwords, fail \in BOOLEAN :
        LET key == IF folderId \in Keys(store.folders)
                   THEN deriveKeyFromPassword(password,
                                              RowOf(StorageSeed.folders, folderId).salt.b64)
                   ELSE Null
        IN  /\ call' = CallOf("unlockFolder", Cause("folders", folderId, key, fail), fail)
            /\ ret' = Lib_unlockFolder(lib, store, folderId, password, fail)
            /\ UNCHANGED <<sessionVars, lib, storeVars, uiVars, moreVars>>

Call_downloadFile ==
    \E fileId \in FileIds, password \in Passwords, fail \in BOOLEAN :
        LET folderKey == deriveKeyFromPassword(password,
                                               RowOf(StorageSeed.folders, 1).salt.b64)
        IN  /\ call' = CallOf("downloadFile", Cause("files", fileId, folderKey, fail), fail)
            /\ ret' = Lib_downloadFile(lib, store, fileId, folderKey, fail)
            /\ UNCHANGED <<sessionVars, lib, storeVars, uiVars, moreVars>>

Call_getWorkspaceFolders ==
    \E password \in Passwords, fail \in BOOLEAN :
        /\ call' = CallOf("getWorkspaceFolders", IF fail THEN "store" ELSE "none", fail)
        /\ ret' = Lib_getWorkspaceFolders(lib, store, createWorkspaceId(password), fail)
        /\ UNCHANGED <<sessionVars, lib, storeVars, uiVars, moreVars>>

Call_getFolderFiles ==
    \E folderId \in FolderIds, fail \in BOOLEAN :
        /\ call' = CallOf("getFolderFiles", IF fail THEN "store" ELSE "none", fail)
        /\ ret' = Lib_getFolderFiles(lib, store, folderId, fail)
        /\ UNCHANGED <<sessionVars, lib, storeVars, uiVars, moreVars>>

NextStorage ==
    \/ Store_alter
    \/ Call_unlockWorkspace
    \/ Call_unlockFolder
    \/ Call_downloadFile
    \/ Call_getWorkspaceFolders
    \/ Call_getFolderFiles

SpecStorage == InitStorage /\ [][NextStorage]_vars

\* ------------------------------------------------------------------ claims on the error policy

\* C9: unlockWorkspace and unlockFolder answer one and the same outcome, a
\* null result and never an exception, whether the row is absent, the
\* password is wrong, or the stored ciphertext, nonce or salt is corrupted.
C9_UnlockFailureIsNull ==
    (/\ call.fn \in {"unlockWorkspace", "unlockFolder"}
     /\ call.cause \in {"absent", "wrong password", "corrupted"})
        => (ret.ok /\ IsNull(ret.val))

\* C10: a failure of the row store itself during unlockWorkspace,
\* unlockFolder, downloadFile, getWorkspaceFolders or getFolderFiles is
\* reported as an error of its own: the call does not answer null (the
\* unlock-failed or not-found outcome) and does not answer an empty list.
C10_StoreFailureIsAnError ==
    (/\ call.fn \in {"unlockWorkspace", "unlockFolder", "downloadFile",
                     "getWorkspaceFolders", "getFolderFiles"}
     /\ call.cause = "store")
        => ~ret.ok

\* ------------------------------------------------------------------ the storage layer from an empty store

\* Write calls one run of the storage layer makes.
MaxWrites == 4

\* Write calls of one run the store fails.
MaxFailures == 1

\* A call of the storage layer as the history records it: whether the store
\* call failed (fail), and whether the store took the write (accepted; a
\* read is accepted when it does not fail).
LayerCall(fn, fail, accepted, args) ==
    [fn |-> fn, lib |-> lib, fail |-> fail,
     cause |-> IF fail THEN "store" ELSE IF ~accepted THEN "rejected" ELSE "none",
     args |-> args]

\* The ledger after a removal was asked for: of a workspace with what it
\* holds, of a folder with its files, of a file.
Removed(l, table, id) ==
    LET folders == IF table = "workspaces"
                   THEN {f.id : f \in {g \in l.folders : g.workspaceId = id}}
                   ELSE IF table = "folders" THEN {id} ELSE {}
        files == IF table = "files" THEN {id}
                 ELSE {x.id : x \in {y \in l.files : y.folderId \in folders}}
    IN  [l EXCEPT !.removed = [workspaces |-> IF table = "workspaces"
                                              THEN @.workspaces \cup {id}
                                              ELSE @.workspaces,
                               folders |-> @.folders \cup folders,
                               files |-> @.files \cup files]]

InitLayer ==
    /\ InitSession
    /\ InitUi
    /\ InitCall
    /\ InitMore
    /\ lib \in Libs
    /\ store = EmptyStore
    /\ rng = 0
    /\ uuid = [folders |-> 0, files |-> 0]

Layer_createWorkspace ==
    \E password \in Passwords, name \in {"Vault"}, fail \in BOOLEAN :
        LET r == Lib_createWorkspace(lib, store, password, name, rng, fail)
        IN  /\ ledger.calls < MaxWrites
            /\ fail => ledger.failures < MaxFailures
            /\ rng + 2 <= MaxRandom
            /\ store' = r.db
            /\ rng' = rng + 2
            /\ call' = LayerCall("createWorkspace", fail, r.db # store,
                                 [password |-> password, name |-> name])
            /\ ret' = r.ret
            /\ ledger' = [ledger EXCEPT
                   !.calls = @ + 1,
                   !.failures = IF fail THEN @ + 1 ELSE @,
                   !.workspaces = IF r.ret.ok
                                  THEN @ \cup {[password |-> password, name |-> name,
                                                workspace |-> r.ret.val.workspace,
                                                key |-> r.ret.val.key]}
                                  ELSE @]
            /\ UNCHANGED <<sessionVars, lib, uuid, uiVars, crTask, crTask2, peer, viewTasks>>

Layer_createFolder ==
    \E w \in ledger.workspaces, password \in Passwords, name \in {"Photos"}, fail \in BOOLEAN :
        LET id == uuid.folders + 1
            r == Lib_createFolder(lib, store, w.workspace.id, password, name, id, rng, fail)
        IN  /\ ledger.calls < MaxWrites
            /\ fail => ledger.failures < MaxFailures
            /\ uuid.folders < MaxFolders
            /\ rng + 2 <= MaxRandom
            /\ store' = r.db
            /\ rng' = rng + 2
            /\ uuid' = [uuid EXCEPT !.folders = id]
            /\ call' = LayerCall("createFolder", fail, r.db # store,
                                 [workspaceId |-> w.workspace.id, name |-> name])
            /\ ret' = r.ret
            /\ ledger' = [ledger EXCEPT
                   !.calls = @ + 1,
                   !.failures = IF fail THEN @ + 1 ELSE @,
                   !.folders = IF r.ret.ok
                               THEN @ \cup {[id |-> id, workspaceId |-> w.workspace.id,
                                             password |-> password, name |-> name,
                                             key |-> r.ret.val.key]}
                               ELSE @]
            /\ UNCHANGED <<sessionVars, lib, uiVars, crTask, crTask2, peer, viewTasks>>

Layer_uploadFile ==
    \E f \in ledger.folders, file \in Files \cup {LargeFile}, fail \in BOOLEAN :
        LET id == uuid.files + 1
            r == Lib_uploadFile(lib, store, f.id, f.key, file, id, rng, fail)
        IN  /\ ledger.calls < MaxWrites
            /\ fail => ledger.failures < MaxFailures
            /\ uuid.files < MaxFiles
            /\ rng + 4 <= MaxRandom
            /\ store' = r.db
            /\ rng' = rng + r.drawn.random
            /\ uuid' = [uuid EXCEPT !.files = @ + r.drawn.uuid]
            /\ call' = LayerCall("uploadFile", fail, r.db # store,
                                 [folderId |-> f.id, file |-> file, drawn |-> r.drawn,
                                  parent |-> f.id \in Keys(store.folders),
                                  written |-> r.db # store])
            /\ ret' = r.ret
            /\ ledger' = [ledger EXCEPT
                   !.calls = @ + 1,
                   !.failures = IF fail THEN @ + 1 ELSE @,
                   !.files = IF r.ret.ok
                             THEN @ \cup {[id |-> id, folderId |-> f.id, key |-> f.key,
                                           file |-> file]}
                             ELSE @]
            /\ UNCHANGED <<sessionVars, lib, uiVars, crTask, crTask2, peer, viewTasks>>

Layer_deleteFolder ==
    \E f \in ledger.folders, fail \in BOOLEAN :
        LET r == Lib_deleteFolder(lib, store, f.id, fail)
        IN  /\ ledger.calls < MaxWrites
            /\ fail => ledger.failures < MaxFailures
            /\ store' = r.db
            /\ call' = LayerCall("deleteFolder", fail, ~fail, [folderId |-> f.id])
            /\ ret' = r.ret
            /\ ledger' = [Removed(ledger, "folders", f.id) EXCEPT
                   !.calls = @ + 1,
                   !.failures = IF fail THEN @ + 1 ELSE @,
                   !.deleted = IF r.ret.ok THEN @ \cup {f.id} ELSE @]
            /\ UNCHANGED <<sessionVars, lib, rng, uuid, uiVars, crTask, crTask2, peer, viewTasks>>

Layer_deleteFile ==
    \E x \in ledger.files, fail \in BOOLEAN :
        LET r == Lib_deleteFile(lib, store, x.id, fail)
        IN  /\ ledger.calls < MaxWrites
            /\ fail => ledger.failures < MaxFailures
            /\ store' = r.db
            /\ call' = LayerCall("deleteFile", fail, ~fail, [fileId |-> x.id])
            /\ ret' = r.ret
            /\ ledger' = [Removed(ledger, "files", x.id) EXCEPT !.calls = @ + 1,
                   !.failures = IF fail THEN @ + 1 ELSE @]
            /\ UNCHANGED <<sessionVars, lib, rng, uuid, uiVars, crTask, crTask2, peer, viewTasks>>

\* The owner of the database deletes a workspace row.
Store_deleteWorkspace ==
    \E row \in store.workspaces :
        /\ ledger.calls < MaxWrites
        /\ store' = deleteWorkspaceRow(store, row.id)
        /\ ledger' = [Removed(ledger, "workspaces", row.id) EXCEPT !.calls = @ + 1]
        /\ UNCHANGED <<sessionVars, lib, rng, uuid, uiVars, callVars, crTask, crTask2, peer, viewTasks>>

Layer_unlockWorkspace ==
    \E password \in Passwords :
        /\ call' = LayerCall("unlockWorkspace", FALSE, TRUE, [password |-> password])
        /\ ret' = Lib_unlockWorkspace(lib, store, password, FALSE)
        /\ UNCHANGED <<sessionVars, lib, storeVars, uiVars, moreVars>>

\* downloadFile of a file some upload returned, with the key of a folder
\* some createFolder returned.
Layer_downloadFile ==
    \E x \in ledger.files, f \in ledger.folders :
        /\ call' = LayerCall("downloadFile", FALSE, TRUE,
                             [fileId |-> x.id, keyOf |-> f.id])
        /\ ret' = Lib_downloadFile(lib, store, x.id, f.key, FALSE)
        /\ UNCHANGED <<sessionVars, lib, storeVars, uiVars, moreVars>>

\* decryptFileMetadata of a file getFolderFiles lists, with the key of a
\* folder some createFolder returned.
Layer_decryptFileMetadata ==
    \E g \in ledger.folders, f \in ledger.folders :
        \E file \in Lib_getFolderFiles(lib, store, g.id, FALSE).val :
            /\ call' = LayerCall("decryptFileMetadata", FALSE, TRUE,
                                 [fileId |-> file.id, keyOf |-> f.id])
            /\ ret' = Lib_decryptFileMetadata(lib, file, f.key)
            /\ UNCHANGED <<sessionVars, lib, storeVars, uiVars, moreVars>>

NextLayer ==
    \/ Layer_createWorkspace
    \/ Layer_createFolder
    \/ Layer_uploadFile
    \/ Layer_deleteFolder
    \/ Layer_deleteFile
    \/ Store_deleteWorkspace
    \/ Layer_unlockWorkspace
    \/ Layer_downloadFile
    \/ Layer_decryptFileMetadata

SpecLayer == InitLayer /\ [][NextLayer]_vars

\* ------------------------------------------------------------------ WelcomeScreen, mode create

\* The card "Create New".
Welcome_setModeCreate ==
    /\ WelcomeMounted
    /\ welcome.mode = "welcome"
    /\ welcome' = [welcome EXCEPT !.mode = "create"]
    /\ UNCHANGED <<sessionVars, lib, storeVars, wsTask, view, ufTask, cfTask, upTask,
                   dlTask, epoch, cryptoLog, callVars, moreVars>>

\* handleCreate up to its first await, workspaceExists(password): its
\* checks, each ending it with a toast.  loading is still false, so the
\* button takes a second click (run 2) while the first run awaits.
Welcome_handleCreate(forms, runs) ==
    \E form \in forms, run \in runs :
        LET refused == createChecks(form.name, form.password, form.confirmPassword)
            task == [IdleCreateWorkspace EXCEPT !.phase = "checking",
                                                !.password = form.password,
                                                !.confirmPassword = form.confirmPassword,
                                                !.workspaceName = form.name]
        IN  /\ WelcomeMounted
            /\ welcome.mode = "create"
            /\ ~welcome.loading
            /\ IF run = 1 THEN crTask.phase = "idle"
               ELSE crTask.phase # "idle" /\ crTask2.phase = "idle"
            /\ welcome' = [welcome EXCEPT !.refused = refused]
            /\ crTask' = IF IsNull(refused) /\ run = 1 THEN task ELSE crTask
            /\ crTask2' = IF IsNull(refused) /\ run = 2 THEN task ELSE crTask2
            /\ UNCHANGED <<sessionVars, lib, storeVars, wsTask, view, ufTask, cfTask,
                           upTask, dlTask, epoch, cryptoLog, callVars, ledger, peer,
                           viewTasks>>

\* await workspaceExists(password) resolves: the toast "Workspace exists" and
\* return, or setLoading(true) and the call of createWorkspace.
Welcome_existsResolve ==
    \E run \in {1, 2}, fail \in BOOLEAN :
        LET task == IF run = 1 THEN crTask ELSE crTask2
            exists == Lib_workspaceExists(lib, store, task.password, fail)
            next == IF exists THEN IdleCreateWorkspace
                    ELSE [task EXCEPT !.phase = "creating", !.checkFailed = fail]
        IN  /\ task.phase = "checking"
            /\ crTask' = IF run = 1 THEN next ELSE crTask
            /\ crTask2' = IF run = 2 THEN next ELSE crTask2
            /\ welcome' = IF exists \/ ~WelcomeMounted THEN welcome
                          ELSE [welcome EXCEPT !.loading = TRUE]
            /\ UNCHANGED <<sessionVars, lib, storeVars, wsTask, view, ufTask, cfTask,
                           upTask, dlTask, epoch, cryptoLog, callVars, ledger, peer,
                           viewTasks>>

\* await createWorkspace(password, workspaceName) and the rest of
\* handleCreate: the dispatch of UNLOCK_WORKSPACE, or the catch.
Welcome_createResolve ==
    \E run \in {1, 2}, fail \in BOOLEAN :
        LET task == IF run = 1 THEN crTask ELSE crTask2
            r == Lib_createWorkspace(lib, store, task.password, task.workspaceName,
                                     rng, fail)
            id == createWorkspaceId(task.password)
            before == IF id \in Keys(store.workspaces)
                      THEN Some(RowOf(store.workspaces, id)) ELSE Null
            done == [IdleCreateWorkspace EXCEPT !.derived = TRUE,
                                                !.existed = ~IsNull(before)]
        IN  /\ task.phase = "creating"
            /\ ledger.calls < MaxWrites
            /\ fail => ledger.failures < MaxFailures
            /\ rng + 2 <= MaxRandom
            /\ store' = r.db
            /\ rng' = rng + 2
            /\ call' = LayerCall("createWorkspace", fail, r.db # store,
                                 [password |-> task.password,
                                  name |-> task.workspaceName,
                                  tab |-> "this", before |-> before,
                                  checkFailed |-> task.checkFailed])
            /\ ret' = r.ret
            /\ ledger' = [ledger EXCEPT
                   !.calls = @ + 1,
                   !.failures = IF fail THEN @ + 1 ELSE @,
                   !.workspaces = IF r.ret.ok
                                  THEN @ \cup {[password |-> task.password,
                                                name |-> task.workspaceName,
                                                workspace |-> r.ret.val.workspace,
                                                key |-> r.ret.val.key]}
                                  ELSE @]
            /\ crTask' = IF run = 1 THEN done ELSE crTask
            /\ crTask2' = IF run = 2 THEN done ELSE crTask2
            /\ IF r.ret.ok
               THEN /\ Dispatch([type |-> "UNLOCK_WORKSPACE",
                                 payload |-> [workspace |-> r.ret.val.workspace,
                                              key |-> r.ret.val.key,
                                              name |-> task.workspaceName]])
                    /\ welcome' = WelcomeInit
                    /\ view' = IF ViewMounted THEN view ELSE ViewInit
               ELSE /\ UNCHANGED <<sessionVars, view>>
                    /\ welcome' = IF WelcomeMounted
                                  THEN [welcome EXCEPT !.loading = FALSE]
                                  ELSE welcome
            /\ UNCHANGED <<lib, uuid, wsTask, ufTask, cfTask, upTask, dlTask, epoch,
                           cryptoLog, peer, viewTasks>>

\* handleCreate in another tab on the same store, up to its first await.
Peer_handleCreate ==
    \E password \in Passwords, workspaceName \in {"Photos"} :
        /\ peer.phase = "idle"
        /\ peer' = [IdleCreateWorkspace EXCEPT !.phase = "checking",
                                               !.password = password,
                                               !.confirmPassword = password,
                                               !.workspaceName = workspaceName]
        /\ UNCHANGED <<sessionVars, lib, storeVars, uiVars, callVars, ledger, crTask, crTask2, viewTasks>>

Peer_existsResolve ==
    \E fail \in BOOLEAN :
        LET exists == Lib_workspaceExists(lib, store, peer.password, fail)
        IN  /\ peer.phase = "checking"
            /\ peer' = IF exists THEN IdleCreateWorkspace
                       ELSE [peer EXCEPT !.phase = "creating", !.checkFailed = fail]
            /\ UNCHANGED <<sessionVars, lib, storeVars, uiVars, callVars, ledger, crTask, crTask2, viewTasks>>

\* createWorkspace of the other tab; its dispatch goes to that tab's session.
Peer_createResolve ==
    \E fail \in BOOLEAN :
        LET r == Lib_createWorkspace(lib, store, peer.password, peer.workspaceName,
                                     rng, fail)
            id == createWorkspaceId(peer.password)
            before == IF id \in Keys(store.workspaces)
                      THEN Some(RowOf(store.workspaces, id)) ELSE Null
        IN  /\ peer.phase = "creating"
            /\ ledger.calls < MaxWrites
            /\ fail => ledger.failures < MaxFailures
            /\ rng + 2 <= MaxRandom
            /\ store' = r.db
            /\ rng' = rng + 2
            /\ call' = LayerCall("createWorkspace", fail, r.db # store,
                                 [password |-> peer.password,
                                  name |-> peer.workspaceName,
                                  tab |-> "peer", before |-> before,
                                  checkFailed |-> peer.checkFailed])
            /\ ret' = r.ret
            /\ ledger' = [ledger EXCEPT
                   !.calls = @ + 1,
                   !.failures = IF fail THEN @ + 1 ELSE @,
                   !.workspaces = IF r.ret.ok
                                  THEN @ \cup {[password |-> peer.password,
                                                name |-> peer.workspaceName,
                                                workspace |-> r.ret.val.workspace,
                                                key |-> r.ret.val.key]}
                                  ELSE @]
            /\ peer' = [IdleCreateWorkspace EXCEPT !.derived = TRUE,
                                                   !.existed = ~IsNull(before)]
            /\ UNCHANGED <<sessionVars, lib, uuid, uiVars, crTask, crTask2, viewTasks>>

NextCreate ==
    \/ Welcome_setModeCreate
    \/ Welcome_handleCreate(AcceptedForms({"Vault"}), {1})
    \/ Welcome_existsResolve
    \/ Welcome_createResolve
    \/ Peer_handleCreate
    \/ Peer_existsResolve
    \/ Peer_createResolve

SpecCreate == InitLayer /\ [][NextCreate]_vars

\* ------------------------------------------------------------------ the create forms

\* WelcomeScreen in mode create and, once a workspace is open, the create
\* folder dialog, with whatever may be typed into them and a button that is
\* clicked whenever it is enabled.
NextForms ==
    \/ Welcome_setModeCreate
    \/ Welcome_handleCreate(TypedForms, {1, 2})
    \/ Welcome_existsResolve
    \/ Welcome_createResolve
    \/ View_openCreateFolder
    \/ View_closeCreateDialog
    \/ Dialog_handleSubmitCreate(TypedForms)
    \/ Dialog_createResolve
    \/ View_Back

SpecForms == InitLayer /\ [][NextForms]_vars

\* ------------------------------------------------------------------ the file list and handleDeleteFolder

\* Runs of the loadFiles effect in flight at once.
MaxLoads == 2

\* The dependencies of the loadFiles effect: selectedFolderId, and
\* getFolderKey, a callback made anew when unlockedFolders changes.
EffectDeps ==
    [selectedFolderId |-> view.selectedFolderId,
     unlockedFolders |-> session.unlockedFolders]

\* React runs an effect after the render in which a dependency changed, and
\* before it handles the next event.
EffectPending == ViewMounted /\ view.ran # Some(EffectDeps)

\* loadFiles up to its first await: setFiles([]) without a selected folder
\* or without its key, setLoadingFiles(true) and getFolderFiles otherwise.
\* No run is cancelled when a later one starts.
View_loadFilesEffect ==
    LET folderKey == getFolderKey(session, Val(view.selectedFolderId))
    IN  /\ EffectPending
        /\ IF IsNull(view.selectedFolderId) \/ IsNull(folderKey)
           THEN /\ view' = [view EXCEPT !.files = {}, !.ran = Some(EffectDeps)]
                /\ UNCHANGED loads
           ELSE /\ Len(loads) < MaxLoads
                /\ view' = [view EXCEPT !.loadingFiles = TRUE, !.ran = Some(EffectDeps)]
                /\ loads' = Append(loads, [folderId |-> Val(view.selectedFolderId),
                                           folderKey |-> Val(folderKey)])
        /\ UNCHANGED <<sessionVars, lib, storeVars, welcome, wsTask, ufTask, cfTask,
                       upTask, dlTask, epoch, cryptoLog, callVars, ledger, crTask, crTask2, peer,
                       dfTask>>

\* The rest of a run of loadFiles: the answer of getFolderFiles, an entry
\* for each file whose name decryptFileMetadata returns, setFiles and
\* setLoadingFiles(false).
View_loadFilesResolve ==
    \E i \in DOMAIN loads, fail \in BOOLEAN :
        LET load == loads[i]
            encryptedFiles == Lib_getFolderFiles(lib, store, load.folderId, fail).val
            decryptedFiles ==
                {FileEntry(file.id,
                           Lib_decryptFileMetadata(lib, file, load.folderKey).val,
                           file.size, file.mimeType, file.createdAt, file.folderId) :
                     file \in {f \in encryptedFiles :
                                  Lib_decryptFileMetadata(lib, f, load.folderKey).ok}}
        IN  /\ loads' = [j \in 1..(Len(loads) - 1) |->
                             IF j < i THEN loads[j] ELSE loads[j + 1]]
            /\ view' = IF ViewMounted
                       THEN [view EXCEPT
                                !.files = decryptedFiles,
                                !.loadingFiles = FALSE,
                                !.listed = Some([folderId |-> load.folderId,
                                                 files |-> decryptedFiles,
                                                 failed |-> fail,
                                                 uploaded |-> {u.id : u \in ledger.files}])]
                       ELSE view
            /\ UNCHANGED <<sessionVars, lib, storeVars, welcome, wsTask, ufTask, cfTask,
                           upTask, dlTask, epoch, cryptoLog, callVars, ledger, crTask, crTask2,
                           peer, dfTask>>

\* handleDeleteFolder up to its await, the confirm accepted.  The trash
\* button is on the card of an unlocked folder in the folder view.
View_handleDeleteFolder ==
    \E folderId \in view.folders :
        /\ ViewMounted
        /\ NoDialogOpen
        /\ IsNull(view.selectedFolderId)
        /\ isFolderUnlocked(session, folderId)
        /\ dfTask.phase = "idle"
        /\ dfTask' = [IdleDeleteFolder EXCEPT
                          !.phase = "deleting",
                          !.folderId = Some(folderId),
                          !.selectedFolderId = view.selectedFolderId]
        /\ UNCHANGED <<sessionVars, lib, storeVars, uiVars, callVars, ledger, crTask, crTask2,
                       peer, loads>>

\* await deleteFolder(folderId) and the rest of handleDeleteFolder:
\* LOCK_FOLDER, setSelectedFolderId(null) when the selectedFolderId of the
\* handler's render is the folder, and loadFolders.  A throw of deleteFolder
\* ends the handler.
View_deleteFolderResolve ==
    \E fail, failList \in BOOLEAN :
        LET folderId == Val(dfTask.folderId)
            r == Lib_deleteFolder(lib, store, folderId, fail)
        IN  /\ dfTask.phase = "deleting"
            /\ store' = r.db
            /\ dfTask' = [IdleDeleteFolder EXCEPT
                              !.folderId = dfTask.folderId,
                              !.selectedFolderId = dfTask.selectedFolderId,
                              !.failed = fail,
                              !.dispatched = r.ret.ok]
            /\ ledger' = IF r.ret.ok
                         THEN [Removed(ledger, "folders", folderId) EXCEPT
                                  !.deleted = @ \cup {folderId}]
                         ELSE ledger
            /\ IF r.ret.ok
               THEN /\ Dispatch([type |-> "LOCK_FOLDER", payload |-> [folderId |-> folderId]])
                    /\ view' =
                           IF ~ViewMounted THEN view
                           ELSE [view EXCEPT
                                    !.selectedFolderId =
                                        IF dfTask.selectedFolderId = Some(folderId)
                                        THEN Null ELSE @,
                                    !.folders =
                                        {f.id : f \in Lib_getWorkspaceFolders(
                                                          lib, r.db,
                                                          Val(session.workspace).id,
                                                          failList).val}]
               ELSE UNCHANGED <<sessionVars, view>>
            /\ UNCHANGED <<lib, rng, uuid, welcome, wsTask, ufTask, cfTask, upTask,
                           dlTask, epoch, cryptoLog, callVars, crTask, crTask2, peer, loads>>

\* The workspace of the seed holding a second folder, made by createFolder.
ViewFolder ==
    createFolder(SeedStore, SeedWorkspace.ret.val.workspace.id,
                 "Correct#Horse99battery", "Vault", 2, SeedRandom, FALSE)

\* The session of a user who unlocked the workspace and then both folders:
\* the reducer's state after these three dispatches.
ViewSessions ==
    LET w == Val(unlockWorkspace(ViewFolder.db, "Correct#Horse99battery", FALSE).val)
        f1 == Val(unlockFolder(ViewFolder.db, 1, "f0lder!Pass1", FALSE).val)
        f2 == Val(unlockFolder(ViewFolder.db, 2, "Correct#Horse99battery", FALSE).val)
        s1 == sessionReducer(initialState, [type |-> "UNLOCK_WORKSPACE", payload |-> w])
        s2 == sessionReducer(s1, [type |-> "UNLOCK_FOLDER",
                                  payload |-> [folderId |-> 1, key |-> f1.key,
                                               name |-> f1.name]])
        a3 == [type |-> "UNLOCK_FOLDER",
               payload |-> [folderId |-> 2, key |-> f2.key, name |-> f2.name]]
    IN  [session |-> sessionReducer(s2, a3), lastAction |-> a3, pre |-> s2]

\* WorkspaceView showing the folder view with both folders loaded and
\* unlocked, nothing in flight.
InitView ==
    /\ session = ViewSessions.session
    /\ lastAction = ViewSessions.lastAction
    /\ pre = ViewSessions.pre
    /\ InitCall
    /\ InitMore
    /\ lib \in Libs
    /\ store = ViewFolder.db
    /\ rng = SeedRandom + 2
    /\ uuid = [folders |-> 2, files |-> 0]
    /\ welcome = WelcomeInit
    /\ wsTask = IdleUnlock
    /\ view = [ViewInit EXCEPT !.folders = Keys(ViewFolder.db.folders)]
    /\ ufTask = IdleFolderUnlock
    /\ cfTask = IdleCreate
    /\ upTask = IdleUpload
    /\ dlTask = IdleDownload
    /\ epoch = 0
    /\ cryptoLog = NoCrypto

\* The handlers of the page run once the pending effect has run.
NextView ==
    \/ View_loadFilesEffect
    \/ View_loadFilesResolve
    \/ ~EffectPending /\ View_handleFolderClick
    \/ ~EffectPending /\ View_Back
    \/ ~EffectPending /\ View_handleFileUpload
    \/ ~EffectPending /\ View_uploadNext
    \/ ~EffectPending /\ View_handleDeleteFolder
    \/ ~EffectPending /\ View_deleteFolderResolve

SpecView == InitView /\ [][NextView]_vars

\* C11: createWorkspace, createFolder, uploadFile, deleteFolder and deleteFile
\* return normally only if the store accepted the write; when the store call
\* fails or the store rejects the row, the call raises an error.
C11_WriteReturnsOnlyIfAccepted ==
    /\ call.fn \in {"createWorkspace", "createFolder", "uploadFile", "deleteFolder", "deleteFile"}
    /\ ret.ok
    => call.cause = "none"

\* C12: a createWorkspace for an identifier that already has a row fails with
\* an error and leaves that row (salt, metadata, created_at) as it was; and a
\* create that failed, by a conflict or a store failure, leaves the session
\* of the tab that asked for it locked.
C12_CreateOnExistingRowFails ==
    /\ (call.fn = "createWorkspace" /\ ~IsNull(call.args.before))
       => /\ ~ret.ok
          /\ Val(call.args.before) \in store.workspaces
    /\ (call.fn = "createWorkspace" /\ call.args.tab = "this" /\ call.cause # "none")
       => ~isWorkspaceUnlocked(session)

\* C13: a create request calls deriveKeyFromPassword only when no row with
\* the identifier of its password is in the store.
C13_NoKeyDerivedWhenRowExists ==
    /\ crTask.derived => ~crTask.existed
    /\ peer.derived => ~peer.existed

\* C14: whatever creations ran, one after another or at the same time in two
\* tabs, the store holds at most one workspace row for each password.
C14_AtMostOneRowPerPassword ==
    \A password \in Passwords :
        Cardinality({row \in store.workspaces : row.id = createWorkspaceId(password)}) <= 1

\* C14, its case: two creations with one password both passed
\* workspaceExists with no store failure, so both saw no row, and the insert
\* of the second was rejected.
C14_SecondOfTwoRejected ==
    /\ call.fn = "createWorkspace"
    /\ call.cause = "rejected"
    /\ ~call.args.checkFailed
    /\ Cardinality(store.workspaces) = 1

\* C15: once deleteFolder(f) has returned normally no file row with
\* folder_id = f is in the store, and downloadFile of a file that was
\* uploaded to f answers null; and no folder row is left without its
\* workspace row, no file row without its folder row.
C15_DeleteFolderRemovesItsFiles ==
    /\ (call.fn = "deleteFolder" /\ ret.ok)
       => \A row \in store.files : row.folder_id # call.args.folderId
    /\ (/\ call.fn = "downloadFile"
        /\ \E x \in ledger.files : /\ x.id = call.args.fileId
                                   /\ x.folderId \in ledger.deleted)
       => ret = Ok(Null)
    /\ \A row \in store.folders : row.workspace_id \in Keys(store.workspaces)
    /\ \A row \in store.files : row.folder_id \in Keys(store.folders)

\* C16: unlockWorkspace(p) after a createWorkspace(p, n) that returned
\* normally answers the workspace that create returned, with its key and the
\* name n; unlockWorkspace(q) for a password q no workspace was created with
\* answers null.
C16_UnlockReturnsWhatCreateStored ==
    call.fn = "unlockWorkspace"
    => /\ \A w \in ledger.workspaces :
              (/\ w.password = call.args.password
               /\ w.workspace.id \notin ledger.removed.workspaces)
              => /\ ret.ok
                 /\ ~IsNull(ret.val)
                 /\ Val(ret.val).name = w.name
                 /\ Val(ret.val).workspace = w.workspace
                 /\ Val(ret.val).key = w.key
       /\ (\A w \in ledger.workspaces : w.password # call.args.password)
          => ret = Ok(Null)

\* C17: downloadFile(id, k) of a file that uploadFile(f, k, file) returned,
\* with the same key k and before any removal of it, answers the bytes and
\* the file name that were uploaded, a file of no bytes included.
C17_DownloadReturnsTheUpload ==
    call.fn = "downloadFile"
    => \A x \in ledger.files :
           (/\ x.id = call.args.fileId
            /\ x.folderId = call.args.keyOf
            /\ x.id \notin ledger.removed.files)
           => /\ ret.ok
              /\ ~IsNull(ret.val)
              /\ Val(ret.val).data = x.file.data
              /\ Val(ret.val).filename = x.file.name

C19_FoldersUnlockedOnlyByTheirPassword ==
    /\ \A id \in DOMAIN session.unlockedFolders :
           \E row \in store.folders :
               /\ row.id = id
               /\ base64ToBytes(row.salt).ok
               /\ \E password \in Passwords :
                      session.unlockedFolders[id].key =
                          deriveKeyFromPassword(password, base64ToBytes(row.salt).val)
               /\ decryptString(row.metadata_ciphertext,
                                session.unlockedFolders[id].key, row.metadata_iv).ok
    /\ (DOMAIN session.unlockedFolders) \ (DOMAIN pre.unlockedFolders)
           \subseteq (IF lastAction.type = "UNLOCK_FOLDER"
                      THEN {lastAction.payload.folderId} ELSE {})

\* C20: downloadFile and decryptFileMetadata of a file uploaded to one folder,
\* called with the key of another folder, fail (null or an exception), also
\* when the two folders were created with the same password.
C20_KeyOfAnotherFolderFails ==
    call.fn \in {"downloadFile", "decryptFileMetadata"}
    => \A x \in ledger.files :
           (x.id = call.args.fileId /\ x.folderId # call.args.keyOf)
           => (~ret.ok \/ ret = Ok(Null))

\* C20, its case: the file's row is in the store, and the key used is that of
\* another folder created with the same password as the file's folder.
C20_SamePasswordOtherFolder ==
    /\ call.fn \in {"downloadFile", "decryptFileMetadata"}
    /\ \E x \in ledger.files, a \in ledger.folders, b \in ledger.folders :
           /\ x.id = call.args.fileId
           /\ x.id \in Keys(store.files)
           /\ b.id = x.folderId
           /\ a.id = call.args.keyOf
           /\ a.id # b.id
           /\ a.password = b.password

\* C23: UNLOCK_FOLDER(f, key, name) on a session whose workspace is unlocked
\* gives a session with unlockedFolders[f] = {key, name} and
\* currentFolderId = f; every other entry of unlockedFolders, and workspace,
\* workspaceKey and workspaceName, are as before.
C23_UnlockFolderSetsOneEntry ==
    (lastAction.type = "UNLOCK_FOLDER" /\ isWorkspaceUnlocked(pre))
    => LET f == lastAction.payload.folderId
       IN  /\ f \in DOMAIN session.unlockedFolders
           /\ session.unlockedFolders[f] = [key |-> lastAction.payload.key,
                                            name |-> lastAction.payload.name]
           /\ session.currentFolderId = Some(f)
           /\ DOMAIN session.unlockedFolders = DOMAIN pre.unlockedFolders \cup {f}
           /\ \A g \in DOMAIN pre.unlockedFolders \ {f} :
                  session.unlockedFolders[g] = pre.unlockedFolders[g]
           /\ session.workspace = pre.workspace
           /\ session.workspaceKey = pre.workspaceKey
           /\ session.workspaceName = pre.workspaceName

\* C23, its case: UNLOCK_FOLDER for one folder reached an unlocked workspace
\* in which another folder was unlocked.
C23_UnlockedASecondFolder ==
    /\ lastAction.type = "UNLOCK_FOLDER"
    /\ isWorkspaceUnlocked(pre)
    /\ DOMAIN pre.unlockedFolders \ {lastAction.payload.folderId} # {}

\* C24: LOCK_FOLDER(f) removes the entry f from unlockedFolders and nothing
\* else; currentFolderId becomes null if it was f and stays otherwise; and
\* when f was not unlocked the session is as before.
C24_LockFolderRemovesOneEntry ==
    lastAction.type = "LOCK_FOLDER"
    => LET f == lastAction.payload.folderId
       IN  /\ DOMAIN session.unlockedFolders = DOMAIN pre.unlockedFolders \ {f}
           /\ \A g \in DOMAIN session.unlockedFolders :
                  session.unlockedFolders[g] = pre.unlockedFolders[g]
           /\ session.workspace = pre.workspace
           /\ session.workspaceKey = pre.workspaceKey
           /\ session.workspaceName = pre.workspaceName
           /\ session.currentFolderId =
                  IF pre.currentFolderId = Some(f) THEN Null ELSE pre.currentFolderId
           /\ f \notin DOMAIN pre.unlockedFolders => session = pre

\* C25: SET_CURRENT_FOLDER(x), x a folder id or null, sets currentFolderId to
\* x and leaves workspace, workspaceKey, workspaceName and unlockedFolders as
\* they were.
C25_SetCurrentFolderIsNavigation ==
    lastAction.type = "SET_CURRENT_FOLDER"
    => /\ session.currentFolderId = lastAction.payload
       /\ session.workspace = pre.workspace
       /\ session.workspaceKey = pre.workspaceKey
       /\ session.workspaceName = pre.workspaceName
       /\ session.unlockedFolders = pre.unlockedFolders

\* C25, its case: SET_CURRENT_FOLDER(null) reached a session with an unlocked
\* workspace, an unlocked folder and a current folder.
C25_NavigatedAwayFromAFolder ==
    /\ lastAction.type = "SET_CURRENT_FOLDER"
    /\ IsNull(lastAction.payload)
    /\ isWorkspaceUnlocked(pre)
    /\ DOMAIN pre.unlockedFolders # {}
    /\ ~IsNull(pre.currentFolderId)

\* C26: handleFileUpload takes the submitted files one per turn, in order, a
\* failed file not ending the loop; and its "Files uploaded" toast counts
\* exactly the files the store took, no toast meaning none.
C26_UploadSummaryCountsStoredFiles ==
    /\ upTask.phase = "uploading"
       => upTask.turns + Len(upTask.queue) = upTask.submitted
    /\ upTask.phase = "idle"
       => /\ upTask.turns = upTask.submitted
          /\ upTask.toast = IF upTask.stored > 0 THEN Some(upTask.stored) ELSE Null

\* The ciphertexts (outputs of encrypt and wrapKey) the rows of the store
\* carry: <<column, id of the row, ciphertext>>.
StoredCiphertexts ==
    {<<"metadata_ciphertext", ToString(row.id), row.metadata_ciphertext.b64>> :
         row \in store.workspaces \cup store.folders \cup store.files}
    \cup {<<"content_ciphertext", ToString(row.id), row.content_ciphertext.b64>> :
              row \in store.files}
    \cup {<<"content_wrapped_key", ToString(row.id), row.content_wrapped_key.b64>> :
              row \in store.files}

\* C21: no two ciphertexts or wrapped keys that createWorkspace, createFolder
\* and uploadFile stored were made under the same key with the same nonce;
\* the two a file row carries under its folder's key (name, wrapped key) have
\* distinct nonces, and every nonce column is the nonce its ciphertext used.
C21_NoNonceTwiceUnderOneKey ==
    /\ \A a, b \in StoredCiphertexts :
           (ToString(a[3].k) = ToString(b[3].k) /\ a[3].iv = b[3].iv) => a = b
    /\ \A row \in store.files :
           /\ row.metadata_ciphertext.b64.k = row.content_wrapped_key.b64.k
           /\ row.metadata_iv # row.content_key_iv
           /\ row.metadata_iv.b64 = row.metadata_ciphertext.b64.iv
           /\ row.content_key_iv.b64 = row.content_wrapped_key.b64.iv
           /\ row.content_iv.b64 = row.content_ciphertext.b64.iv

\* C21, its case: two files stored in one folder, so five ciphertexts under
\* that folder's key.
C21_FiveCiphertextsUnderOneKey ==
    \E x, y \in store.files :
        /\ x.id # y.id
        /\ x.folder_id = y.folder_id
        /\ \E f \in store.folders :
               /\ f.id = x.folder_id
               /\ f.metadata_ciphertext.b64.k = x.content_wrapped_key.b64.k

\* C22: every file row's content is encrypted under a key of its own, from
\* the random source: no two rows share it, it is no folder's key, the row
\* holds it only wrapped, under the key of the folder the row is in, and the
\* wrapped key unwraps to it under that folder's key and under no other
\* folder's.
C22_OneContentKeyPerFile ==
    /\ \A row \in store.files :
           /\ row.content_ciphertext.b64.k = row.content_wrapped_key.b64.pt
           /\ \A f \in ledger.folders :
                  /\ ToString(row.content_ciphertext.b64.k) # ToString(f.key)
                  /\ f.id = row.folder_id
                     => unwrapKey(row.content_wrapped_key, f.key, row.content_key_iv)
                            = Ok(row.content_ciphertext.b64.k)
                  /\ f.id # row.folder_id
                     => ~unwrapKey(row.content_wrapped_key, f.key, row.content_key_iv).ok
    /\ \A x, y \in store.files :
           x.id # y.id => x.content_ciphertext.b64.k # y.content_ciphertext.b64.k

\* C22, its case: a stored file, and a second folder created with the same
\* password as the folder the file is in.
C22_FileAndATwinFolder ==
    \E x \in store.files :
        \E f, g \in ledger.folders :
            /\ f.id = x.folder_id
            /\ g.id # f.id
            /\ g.password = f.password

\* C27: uploadFile of a file over 50 MiB throws the validation error, having
\* generated no id, key or nonce and written nothing to the store.
C27_LargeFileRejectedBeforeAnyWork ==
    (call.fn = "uploadFile" /\ call.args.file.size > MAX_FILE_SIZE)
    => /\ ret = Throw("File too large")
       /\ call.args.drawn = [uuid |-> 0, random |-> 0]
       /\ ~call.args.written

\* ------------------------------------------------------------------ the crypto helpers

\* Salts and nonces the helpers are tried with: the first MaxNonces values of
\* the random source.
MaxNonces == 2

\* Strings the helpers are given: passwords, names, the empty string, a name
\* that starts with a byte order mark, and passwords that end in a surrogate
\* without its pair or in the replacement character.
CryptoStrings ==
    Passwords \cup {"", "Vault", "{FEFF}Vault", "pw{D800}", "pw{DBFF}", "pw{FFFD}"}

\* Keys of files and keys of folders.
CryptoFileKeys == {generateFileKey(generateRandomBytes(r, 1)) : r \in 0..(MaxNonces - 1)}
CryptoFolderKeys ==
    {deriveKeyFromPassword(password, generateRandomBytes(r, 1)) :
         password \in Passwords, r \in 0..(MaxNonces - 1)}

\* Every behaviour is one call of one helper, from an idle page.
InitCrypto ==
    /\ InitSession
    /\ InitUi
    /\ InitCall
    /\ InitMore
    /\ lib = "storage.ts"
    /\ store = EmptyStore
    /\ rng = 0
    /\ uuid = [folders |-> 0, files |-> 0]

\* createWorkspaceId(password), for two passwords.
Crypto_createWorkspaceId ==
    \E p \in CryptoStrings, q \in CryptoStrings :
        /\ call = NoCall
        /\ call' = LayerCall("createWorkspaceId", FALSE, TRUE, [passwords |-> <<p, q>>])
        /\ ret' = Ok(<<createWorkspaceId(p), createWorkspaceId(q)>>)
        /\ UNCHANGED <<sessionVars, lib, storeVars, uiVars, moreVars>>

\* encrypt(plaintext, key), then decrypt with a key and a nonce of what
\* encrypt returned, as it is or with a bit of the ciphertext flipped.
Crypto_decrypt ==
    \E plaintext \in {file.data : file \in Files}, key \in CryptoFileKeys, usedKey \in CryptoFileKeys,
       r \in 0..(MaxNonces - 1), usedIv \in 1..MaxNonces, how \in {"none", "bit"} :
        LET e == encrypt(plaintext, key, generateRandomBytes(r, 1))
            c == IF how = "bit" THEN [e.ciphertext EXCEPT !.tag = FALSE] ELSE e.ciphertext
        IN  /\ call = NoCall
            /\ call' = LayerCall("decrypt", FALSE, TRUE,
                                 [plaintext |-> plaintext, key |-> key, iv |-> e.iv,
                                  usedKey |-> usedKey, usedIv |-> usedIv, altered |-> how,
                                  same |-> usedKey = key /\ usedIv = e.iv /\ how = "none"])
            /\ ret' = decrypt(c, usedKey, usedIv)
            /\ UNCHANGED <<sessionVars, lib, storeVars, uiVars, moreVars>>

\* encryptString(plaintext, key), then decryptString with a key and the texts
\* encryptString returned, as they are or with the ciphertext text altered.
Crypto_decryptString ==
    \E plaintext \in CryptoStrings, key \in CryptoFolderKeys, usedKey \in CryptoFolderKeys,
       r \in 0..(MaxNonces - 1), usedIv \in 1..MaxNonces,
       how \in {"none", "bit", "malformed"} :
        LET e == encryptString(plaintext, key, generateRandomBytes(r, 1))
            c == IF how = "none" THEN e.ciphertext
                 ELSE alter("metadata_ciphertext", e.ciphertext, how)
        IN  /\ call = NoCall
            /\ call' = LayerCall("decryptString", FALSE, TRUE,
                                 [plaintext |-> plaintext, key |-> key, iv |-> e.iv,
                                  usedKey |-> usedKey, usedIv |-> bytesToBase64(usedIv),
                                  altered |-> how,
                                  same |-> usedKey = key /\ bytesToBase64(usedIv) = e.iv
                                           /\ how = "none"])
            /\ ret' = decryptString(c, usedKey, bytesToBase64(usedIv))
            /\ UNCHANGED <<sessionVars, lib, storeVars, uiVars, moreVars>>

\* wrapKey(keyToWrap, wrappingKey), then unwrapKey with a key and the texts
\* wrapKey returned, as they are or with the wrapped key's text altered.
Crypto_unwrapKey ==
    \E keyToWrap \in CryptoFileKeys, wrappingKey \in CryptoFolderKeys,
       usedKey \in CryptoFolderKeys, r \in 0..(MaxNonces - 1), usedIv \in 1..MaxNonces,
       how \in {"none", "bit", "malformed"} :
        LET w == wrapKey(keyToWrap, wrappingKey, generateRandomBytes(r, 1))
            c == IF how = "none" THEN w.wrappedKey
                 ELSE alter("content_wrapped_key", w.wrappedKey, how)
        IN  /\ call = NoCall
            /\ call' = LayerCall("unwrapKey", FALSE, TRUE,
                                 [plaintext |-> keyToWrap, key |-> wrappingKey, iv |-> w.iv,
                                  usedKey |-> usedKey, usedIv |-> bytesToBase64(usedIv),
                                  altered |-> how,
                                  same |-> usedKey = wrappingKey
                                           /\ bytesToBase64(usedIv) = w.iv /\ how = "none"])
            /\ ret' = unwrapKey(c, usedKey, bytesToBase64(usedIv))
            /\ UNCHANGED <<sessionVars, lib, storeVars, uiVars, moreVars>>

\* bytesToBase64(bytes) of the bytes of a file, then base64ToBytes of the text
\* it returned.
Crypto_base64ToBytes ==
    \E file \in Files \cup {LargeFile} :
        /\ call = NoCall
        /\ call' = LayerCall("base64ToBytes", FALSE, TRUE,
                             [bytes |-> file.data, byteLength |-> file.size])
        /\ ret' = IF fromCharCodeThrows(file.size) THEN Throw("RangeError")
                  ELSE base64ToBytes(bytesToBase64(file.data))
        /\ UNCHANGED <<sessionVars, lib, storeVars, uiVars, moreVars>>

NextCrypto ==
    \/ Crypto_base64ToBytes
    \/ Crypto_createWorkspaceId
    \/ Crypto_decrypt
    \/ Crypto_decryptString
    \/ Crypto_unwrapKey

SpecCrypto == InitCrypto /\ [][NextCrypto]_vars

C29_DecryptInvertsEncrypt ==
    (call.fn \in {"decrypt", "decryptString", "unwrapKey"} /\ call.args.same)
    => ret = Ok(call.args.plaintext)

\* C30: decrypt and unwrapKey, given another key, another nonce or an altered
\* ciphertext, fail with the error of a tag that does not verify.
C30_MismatchIsAnAuthenticationError ==
    (call.fn \in {"decrypt", "unwrapKey"} /\ ~call.args.same)
    => ret = Throw("OperationError")

\* C31: base64ToBytes of the text bytesToBase64 made of a byte sequence is
\* that byte sequence, whatever its length.
C31_Base64RoundTrip ==
    call.fn = "base64ToBytes" => ret = Ok(call.args.bytes)

\* C39: while WorkspaceView is rendered, the session's currentFolderId is the
\* folder the view displays, selectedFolderId (both null in the folder list).
C39_CurrentFolderIsTheSelectedOne ==
    ViewMounted => session.currentFolderId = view.selectedFolderId

\* C33: every file row's folder_id is the id of a folder row and every folder
\* row's workspace_id the id of a workspace row, whatever createFolder,
\* uploadFile, deleteFolder and deleteFile ran in whatever order; and an
\* uploadFile into a folder whose row is gone stores no row.
C33_NoRowWithoutItsParent ==
    /\ \A row \in store.files : row.folder_id \in Keys(store.folders)
    /\ \A row \in store.folders : row.workspace_id \in Keys(store.workspaces)
    /\ (call.fn = "uploadFile" /\ ~call.args.parent) => ~call.args.written

\* C33, its case: uploadFile into a folder that deleteFolder had removed, the
\* store reachable; and its insert was turned down.
C33_UploadIntoADeletedFolder ==
    /\ call.fn = "uploadFile"
    /\ ~call.fail
    /\ call.args.file.size <= MAX_FILE_SIZE
    /\ call.args.folderId \in ledger.deleted
    /\ ~call.args.parent
    /\ call.cause = "rejected"

\* C34: a handleDeleteFolder whose store delete failed has dispatched no
\* LOCK_FOLDER: the folder stays in the session and the selection stays.
C34_FailedDeleteLeavesTheSession ==
    (dfTask.phase = "idle" /\ dfTask.failed) => ~dfTask.dispatched

\* C32: while no handler and no load is in flight, every folder id of
\* unlockedFolders and the folder selected in the view name a folder row of
\* the store.
C32_SessionFoldersHaveRows ==
    (dfTask.phase = "idle" /\ upTask.phase = "idle" /\ loads = <<>> /\ ViewMounted)
        => /\ DOMAIN session.unlockedFolders \subseteq Keys(store.folders)
           /\ ~IsNull(view.selectedFolderId)
                  => Val(view.selectedFolderId) \in Keys(store.folders)

\* C36: a load of a folder's file list that follows a successful uploadFile
\* into that folder yields an entry with the file's id, its name, its size
\* and its MIME type.
C36_ReloadShowsTheUpload ==
    \A u \in ledger.files :
        (/\ ~IsNull(view.listed)
         /\ Val(view.listed).folderId = u.folderId
         /\ u.id \in Val(view.listed).uploaded
         /\ u.folderId \notin ledger.removed.folders)
            => \E e \in Val(view.listed).files :
                   /\ e.id = u.id
                   /\ e.name = u.file.name
                   /\ e.size = u.file.size
                   /\ e.mimeType = IF u.file.type = "" THEN "application/octet-stream"
                                   ELSE u.file.type

\* C37: the file list on display (a folder is selected, the effect has run
\* and no spinner is shown) holds only files of the selected folder.
C37_ListIsOfTheSelectedFolder ==
    (ViewMounted /\ ~EffectPending /\ ~view.loadingFiles /\ ~IsNull(view.selectedFolderId))
        => \A e \in view.files : e.folderId = Val(view.selectedFolderId)

\* C35: at most one create request of the welcome screen and at most one of
\* the create dialog is in flight: while handleCreate runs no second run of
\* it is started, and while the dialog's handleSubmit awaits its button is
\* disabled.
C35_OneRequestInFlight ==
    /\ ~(crTask.phase # "idle" /\ crTask2.phase # "idle")
    /\ (cfTask.phase # "idle" /\ cfTask.mounted) => view.cLoading

\* C38: every create request that went past its checks, every call of
\* createWorkspace and every key held by the session was made with a
\* password of at least 12 characters holding an uppercase letter, a
\* lowercase letter, a digit and a special character, and a request went
\* past its checks only with a confirmation equal to its password.
C38_CreatedOnlyWithAStrongPassword ==
    LET Strong(password) ==
            /\ PasswordChars(password).length >= 12
            /\ PasswordChars(password).upper
            /\ PasswordChars(password).lower
            /\ PasswordChars(password).digit
            /\ PasswordChars(password).special
    IN  /\ \A task \in {crTask, crTask2} :
               task.phase # "idle"
                   => Strong(task.password) /\ task.password = task.confirmPassword
        /\ cfTask.phase # "idle"
               => Strong(cfTask.password) /\ cfTask.password = cfTask.confirmPassword
        /\ call.fn = "createWorkspace" => Strong(call.args.password)
        /\ \A w \in ledger.workspaces : Strong(w.password)
        /\ ~IsNull(session.workspaceKey) => Strong(Val(session.workspaceKey).pw.utf8)
        /\ \A id \in DOMAIN session.unlockedFolders :
               Strong(session.unlockedFolders[id].key.pw.utf8)

\* C38 (witness): a workspace was created, a folder was created in it, and
\* the create dialog has just refused a request whose password is too weak.
C38_WeakFolderPasswordRefused ==
    /\ ledger.workspaces # {}
    /\ DOMAIN session.unlockedFolders # {}
    /\ view.refused = Some("Password too weak")
    /\ cfTask.phase = "idle"

====
